---- MODULE Spec2Model ----
(***************************************************************************)
(* The availability / booking consistency engine of the BookTable backend: *)
(* createBooking and cancelBooking of the booking controller               *)
(* (src/unnamed/part_000, which holds two revisions of the controller)     *)
(* and searchRestaurants and the management handlers of the restaurant    *)
(* controller (src/unnamed/part_001), run as requests against the          *)
(* Restaurant and Booking collections (src/unnamed/part_002).              *)
(*                                                                         *)
(* Every `await` on the store is a point where another request may run.    *)
(* A handler's synchronous code between two store accesses is folded into  *)
(* the action of the store access that ends it.  A time of day "HH:mm" is  *)
(* the pair <<HH, mm>>; a date is an instant counted in hours.             *)
(***************************************************************************)
EXTENDS Integers, Sequences, FiniteSets, TLC

VARIABLES
    revision,      \* which revision of the booking controller is deployed
    versionKey,    \* whether the store checks __v on a whole-array $set
    restaurants,   \* Restaurant collection: id -> document
    bookings,      \* Booking collection: sequence, a booking's _id is its index
    reqs,          \* the requests in flight: slot -> handler state
    tz,            \* the server's local time zone, hours east of UTC
    faults         \* collaborator failures (store, mail) that have happened

vars == <<revision, versionKey, restaurants, bookings, reqs, tz, faults>>

----------------------------------------------------------------------------
(* Bounds of the model *)

MaxBookings == 2     \* booking records ever created
NumSlots == 2        \* seeded times per table
MaxFaults == 1       \* collaborator failures in one run

\* the request slots: two requests run concurrently
Procs == {1, 2}

----------------------------------------------------------------------------
(* Values *)

Revisions == {1, 2}

\* req.user as set by the auth middleware: _id and role
Users == { [id |-> 1, role |-> "customer"],
           [id |-> 2, role |-> "customer"],
           [id |-> 3, role |-> "admin"] }

\* the users that book: user 1
Bookers == { u \in Users : u.id = 1 }

\* restaurant 1 is seeded; restaurant 2 is an id no document has
SeedRestaurantIds == {1}

\* instants in hours: SeedDate is a UTC midnight
SeedDate == 24 * 10

\* the server runs west of Greenwich
ServerUtcOffsets == { -5 }

SeedTimes == [ i \in 1 .. NumSlots |-> <<18 + ((i - 1) \div 2), 30 * ((i - 1) % 2)>> ]

\* req.body.partySize as it arrives: absent, a JSON number, or a string
Absent == [kind |-> "absent", val |-> 0]
Num(n) == [kind |-> "num", val |-> n]
Str(n) == [kind |-> "str", val |-> n]          \* the digits of n, as in "2"
NotANumber == [kind |-> "nan", val |-> 0]      \* a string without leading digits

\* the other three fields when req.body lacks them: undefined is falsy, and
\* so is a date of 0
NoId == 0
NoDate == 0
NoTime == << >>

\* The bodies of the createBooking requests: every seeded slot for a party of
\* 2 at an hour of the seeded UTC day, and one body for each way of not
\* finding a slot.
CreateBodies ==
    { [restaurantId |-> 1, date |-> SeedDate + 13, time |-> SeedTimes[i],
       partySize |-> Num(2)] : i \in 1 .. NumSlots }
    \cup
    { [restaurantId |-> 1, date |-> SeedDate + 13, time |-> SeedTimes[1],
       partySize |-> Num(0)],
      [restaurantId |-> 2, date |-> SeedDate + 13, time |-> SeedTimes[1],
       partySize |-> Num(2)],
      [restaurantId |-> 1, date |-> SeedDate + 24, time |-> SeedTimes[1],
       partySize |-> Num(2)],
      [restaurantId |-> 1, date |-> SeedDate + 13, time |-> <<18, 15>>,
       partySize |-> Num(2)],
      [restaurantId |-> 1, date |-> SeedDate + 13, time |-> SeedTimes[1],
       partySize |-> Num(5)] }

SeedTables ==
    << [id |-> 1, tableSize |-> 2, availableTimes |-> SeedTimes] >>

\* a string of the listing (address.city, address.zip, req.query.location) is
\* the sequence of its characters
SeedCity == <<"S", "f">>
SeedZip == <<"9", "4">>

SeedRestaurant ==
    [ v |-> 0,
      availableTables |-> << [date |-> SeedDate, tables |-> SeedTables] >>,
      timesBookedToday |-> 0,
      isApproved |-> TRUE, city |-> SeedCity, zip |-> SeedZip ]

NoDoc ==
    [ v |-> -1, availableTables |-> << >>, timesBookedToday |-> 0,
      isApproved |-> FALSE, city |-> << >>, zip |-> << >> ]

NoResp == [code |-> 0, error |-> "none"]

Idle ==
    [ op |-> "idle", pc |-> "idle", user |-> [id |-> 0, role |-> "none"],
      restaurantId |-> 0, date |-> 0, time |-> <<0, 0>>, partySize |-> Absent,
      bookingId |-> 0, restaurant |-> NoDoc, dateIdx |-> 0, tableIdx |-> 0,
      failed |-> {}, resp |-> NoResp, location |-> << >>, list |-> {} ]

----------------------------------------------------------------------------
(* Pure helpers *)

\* Array.prototype.includes
Includes(seq, x) == \E i \in 1 .. Len(seq) : seq[i] = x

\* Array.prototype.find over the indices that pass the test: the first of
\* them, 0 for undefined
FindIndex(matches) ==
    IF matches = {} THEN 0
    ELSE CHOOSE i \in matches : \A j \in matches : i <= j

\* moment(date).utc().format('YYYY-MM-DD'): the UTC calendar day of an instant
UtcDay(instant) == instant \div 24

\* moment(date).utc().startOf('day').toDate()
UtcStartOfDay(instant) == 24 * (instant \div 24)

\* moment(date).format('YYYY-MM-DD'): the calendar day in the server's zone
LocalDay(instant) == (instant + tz) \div 24

\* moment(t, 'HH:mm') as minutes of the day
Minutes(t) == 60 * t[1] + t[2]

\* Array.prototype.sort((a, b) => moment(a,'HH:mm').diff(moment(b,'HH:mm'))):
\* a stable sort by time of day
RECURSIVE SortTimes(_)
SortTimes(seq) ==
    IF Len(seq) <= 1 THEN seq
    ELSE LET rest == SortTimes(SubSeq(seq, 1, Len(seq) - 1))
             x == seq[Len(seq)]
             k == Cardinality({ i \in 1 .. Len(rest) : Minutes(rest[i]) <= Minutes(x) })
         IN  SubSeq(rest, 1, k) \o <<x>> \o SubSeq(rest, k + 1, Len(rest))

\* !partySize
Falsy(ps) == ps.kind = "absent" \/ (ps.kind = "num" /\ ps.val = 0)

\* isNaN(parseInt(partySize, 10))
ParsesToNaN(ps) == ps.kind \in {"absent", "nan"}

\* parseInt(partySize, 10) when it is a number
ParseInt(ps) == ps.val

\* a removal that drops the first time of the table, whatever was asked
WithoutFirstTime(times, time) == IF times = << >> THEN times ELSE Tail(times)

\* suitableTable.availableTimes.filter(t => t !== time)
WithoutTime(times, time) == SelectSeq(times, LAMBDA t : t # time)

\* a date lookup that takes the first date entry, whatever its day
FindFirstDate(doc, date) == FindIndex(1 .. Len(doc.availableTables))

\* restaurant.availableTables.find(entry => UTC day of entry.date = UTC day of date)
FindDateUtc(doc, date) ==
    FindIndex({ k \in 1 .. Len(doc.availableTables) :
                  UtcDay(doc.availableTables[k].date) = UtcDay(date) })

\* a matcher that wants a table larger than the party
FindLargerTable(entry, n, time) ==
    FindIndex({ k \in 1 .. Len(entry.tables) :
                  /\ entry.tables[k].tableSize > n
                  /\ Includes(entry.tables[k].availableTimes, time) })

\* a matcher that prefers the smallest table that is large enough
FindBestFitTable(entry, n, time) ==
    FindIndex({ k \in 1 .. Len(entry.tables) :
                  /\ entry.tables[k].tableSize >= n
                  /\ Includes(entry.tables[k].availableTimes, time)
                  /\ \A j \in 1 .. Len(entry.tables) :
                        ( /\ entry.tables[j].tableSize >= n
                          /\ Includes(entry.tables[j].availableTimes, time) )
                        => entry.tables[k].tableSize <= entry.tables[j].tableSize })

\* availabilityForDate.tables.find(table => table.tableSize >= numericPartySize
\*                                          && table.availableTimes.includes(time))
FindSuitableTable(entry, n, time) ==
    FindIndex({ k \in 1 .. Len(entry.tables) :
                  /\ entry.tables[k].tableSize >= n
                  /\ Includes(entry.tables[k].availableTimes, time) })

\* the document with one table's availableTimes replaced (a change to the
\* request's own copy of the restaurant)
SetTimes(doc, d, t, times) ==
    [doc EXCEPT !.availableTables[d].tables[t].availableTimes = times]

\* restaurant.save() after markModified('availableTables'): the whole
\* availableTables array is $set.  With the version key the update is keyed on
\* the __v the document was loaded with, and __v is incremented.
SaveAccepted(stored, local) == ~versionKey \/ stored.v = local.v

\* a save that writes the request's whole copy of the document back, the
\* fields it never touched included
SavedWholeDocument(stored, local) ==
    [local EXCEPT !.v = IF versionKey THEN stored.v + 1 ELSE stored.v]

Saved(stored, local) ==
    [stored EXCEPT !.availableTables = local.availableTables,
                   !.v = IF versionKey THEN stored.v + 1 ELSE stored.v]

\* why restaurant.save() threw: the store failed, or the __v check did
SaveFailure(fails) == IF fails THEN {"saveRestaurant"} ELSE {"versionConflict"}

\* res.status(code).json(...): the handler has answered and its locals are gone
Respond(r, code, error) ==
    [r EXCEPT !.pc = "done", !.resp = [code |-> code, error |-> error],
              !.user = Idle.user, !.restaurantId = 0, !.date = 0,
              !.time = Idle.time, !.partySize = Absent,
              !.restaurant = NoDoc, !.dateIdx = 0, !.tableIdx = 0,
              !.location = Idle.location]

\* whether a collaborator call may fail now, and the count after the call
MayFail == { FALSE } \cup { f \in { TRUE } : faults < MaxFaults }
After(fails) == IF fails THEN faults + 1 ELSE faults

\* what may fail after the writes: the read of the joined view, or the email
\* and the notification record
NotifyOutcomes ==
    { f \in SUBSET {"populate", "email", "notification"} :
        /\ faults + Cardinality(f) <= MaxFaults
        /\ "populate" \in f => f = {"populate"} }

\* an answered request leaves its slot before the next request is taken up
NoneAnswered == \A p \in Procs : reqs[p].pc # "done"

InFlight(op) == Cardinality({ p \in Procs : reqs[p].op = op /\ reqs[p].pc # "done" })

----------------------------------------------------------------------------
(* createBooking, src/unnamed/part_000:8-124 (and 318-412, the same code) *)

\* a POST /bookings request arrives with its body and its authenticated user
CreateReceive(p) ==
    /\ reqs[p].op = "idle"
    /\ NoneAnswered
    /\ Len(bookings) + InFlight("create") < MaxBookings
    /\ \E user \in Bookers, body \in CreateBodies :
         reqs' = [reqs EXCEPT ![p] =
                     [Idle EXCEPT !.op = "create", !.pc = "begin", !.user = user,
                                  !.restaurantId = body.restaurantId,
                                  !.date = body.date, !.time = body.time,
                                  !.partySize = body.partySize]]
    /\ UNCHANGED <<revision, versionKey, tz, restaurants, bookings, faults>>

\* lines 11-43: validation, Restaurant.findById, the matcher
CreateBegin(p) ==
    /\ reqs[p].op = "create" /\ reqs[p].pc = "begin"
    /\ \E findFails \in MayFail :
         /\ faults' = After(findFails)
         /\ LET r0 == reqs[p]
                rid == r0.restaurantId
                n == ParseInt(r0.partySize)
                doc == restaurants[rid]
                d == FindDateUtc(doc, r0.date)
                t == FindSuitableTable(doc.availableTables[d], n, r0.time)
            IN  reqs' = [reqs EXCEPT ![p] =
                     IF \/ rid = NoId \/ r0.date = NoDate \/ r0.time = NoTime
                        \/ Falsy(r0.partySize)
                     THEN Respond(r0, 400, "MissingFields")
                     ELSE IF ParsesToNaN(r0.partySize) \/ n <= 0
                     THEN Respond(r0, 400, "InvalidPartySize")
                     ELSE IF findFails
                     THEN Respond([r0 EXCEPT !.failed = {"findRestaurant"}],
                                  500, "ErrorCreatingBooking")
                     ELSE IF rid \notin DOMAIN restaurants
                     THEN Respond(r0, 404, "RestaurantNotFound")
                     ELSE IF d = 0
                     THEN Respond(r0, 400, "NoTablesForDate")
                     ELSE IF t = 0
                     THEN Respond(r0, 400, "NoSuitableTable")
                     ELSE [r0 EXCEPT !.pc = "saveBooking", !.restaurant = doc,
                                     !.dateIdx = d, !.tableIdx = t]]
    /\ UNCHANGED <<revision, versionKey, tz, restaurants, bookings>>

\* a booking record that takes the party size for the size of the table
NewBookingSizedByParty(r) ==
    LET suitableTable == r.restaurant.availableTables[r.dateIdx].tables[r.tableIdx]
    IN  [ userId |-> r.user.id, restaurantId |-> r.restaurantId,
          date |-> UtcStartOfDay(r.date), time |-> r.time,
          partySize |-> ParseInt(r.partySize),
          tableSize |-> ParseInt(r.partySize),
          bookedTableDefinitionId |-> suitableTable.id,
          status |-> "confirmed" ]

\* a booking record that starts out unconfirmed
NewPendingBooking(r) ==
    LET suitableTable == r.restaurant.availableTables[r.dateIdx].tables[r.tableIdx]
    IN  [ userId |-> r.user.id, restaurantId |-> r.restaurantId,
          date |-> UtcStartOfDay(r.date), time |-> r.time,
          partySize |-> ParseInt(r.partySize),
          tableSize |-> suitableTable.tableSize,
          bookedTableDefinitionId |-> suitableTable.id,
          status |-> "pending" ]

\* lines 45-54: new Booking({...}) from the request and the matched table
NewBooking(r) ==
    LET suitableTable == r.restaurant.availableTables[r.dateIdx].tables[r.tableIdx]
    IN  [ userId |-> r.user.id, restaurantId |-> r.restaurantId,
          date |-> UtcStartOfDay(r.date), time |-> r.time,
          partySize |-> ParseInt(r.partySize),
          tableSize |-> suitableTable.tableSize,
          bookedTableDefinitionId |-> suitableTable.id,
          status |-> "confirmed" ]

\* a handler that goes on to the restaurant without saving the booking first
CreateSkipBooking(p) ==
    /\ reqs[p].op = "create" /\ reqs[p].pc = "saveBooking"
    /\ reqs' = [reqs EXCEPT ![p].pc = "saveRestaurant"]
    /\ UNCHANGED <<revision, versionKey, tz, restaurants, bookings, faults>>

\* line 57: await booking.save()
CreateSaveBooking(p) ==
    /\ reqs[p].op = "create" /\ reqs[p].pc = "saveBooking"
    /\ \E fails \in MayFail :
         /\ faults' = After(fails)
         /\ IF fails
            THEN /\ reqs' = [reqs EXCEPT ![p] =
                        Respond([@ EXCEPT !.failed = {"saveBooking"}],
                                500, "ErrorCreatingBooking")]
                 /\ UNCHANGED bookings
            ELSE /\ bookings' = Append(bookings, NewBooking(reqs[p]))
                 /\ reqs' = [reqs EXCEPT ![p].pc = "saveRestaurant",
                                         ![p].bookingId = Len(bookings) + 1]
    /\ UNCHANGED <<revision, versionKey, tz, restaurants>>

\* lines 60-62: the slot is filtered out of the request's copy, then
\* await restaurant.save()
CreateSaveRestaurant(p) ==
    /\ reqs[p].op = "create" /\ reqs[p].pc = "saveRestaurant"
    /\ LET r == reqs[p]
           rid == r.restaurantId
           old == r.restaurant.availableTables[r.dateIdx].tables[r.tableIdx].availableTimes
           local == SetTimes(r.restaurant, r.dateIdx, r.tableIdx,
                             WithoutTime(old, r.time))
       IN \E fails \in MayFail :
            /\ faults' = After(fails)
            /\ IF fails \/ ~SaveAccepted(restaurants[rid], local)
               THEN /\ reqs' = [reqs EXCEPT ![p] =
                           Respond([@ EXCEPT !.failed = SaveFailure(fails)],
                                   500, "ErrorCreatingBooking")]
                    /\ UNCHANGED restaurants
               ELSE /\ restaurants' = [restaurants EXCEPT ![rid] = Saved(@, local)]
                    /\ reqs' = [reqs EXCEPT ![p].pc = "incCounter",
                                            ![p].restaurant = NoDoc,
                                            ![p].dateIdx = 0, ![p].tableIdx = 0]
    /\ UNCHANGED <<revision, versionKey, tz, bookings>>

\* lines 64-66: await Restaurant.findByIdAndUpdate(id, {$inc: {timesBookedToday: 1}})
CreateIncCounter(p) ==
    /\ reqs[p].op = "create" /\ reqs[p].pc = "incCounter"
    /\ LET rid == reqs[p].restaurantId
       IN \E fails \in MayFail :
            /\ faults' = After(fails)
            /\ IF fails
               THEN /\ reqs' = [reqs EXCEPT ![p] =
                           Respond([@ EXCEPT !.failed = {"incCounter"}],
                                   500, "ErrorCreatingBooking")]
                    /\ UNCHANGED restaurants
               ELSE /\ restaurants' =
                           [restaurants EXCEPT ![rid].timesBookedToday = @ + 1]
                    /\ reqs' = [reqs EXCEPT ![p].pc = "notify"]
    /\ UNCHANGED <<revision, versionKey, tz, bookings>>

\* the answer if the email and the notification record were not guarded by
\* their own try/catch: any failure reaches the outer catch
CreateAnswerUnguarded(failing) ==
    IF failing # {}
    THEN [code |-> 500, error |-> "ErrorCreatingBooking"]
    ELSE [code |-> 201, error |-> "none"]

\* lines 69-118: the joined view is read back, the confirmation email and the
\* notification record are attempted inside their own try/catch, then 201
CreateAnswer(failing) ==
    IF "populate" \in failing
    THEN [code |-> 500, error |-> "ErrorCreatingBooking"]
    ELSE [code |-> 201, error |-> "none"]

\* a handler whose read of the joined view is outside the try: when that read
\* fails nothing is caught and no response is sent
CreateNotifyUncaught(p) ==
    /\ reqs[p].op = "create" /\ reqs[p].pc = "notify"
    /\ \E failing \in NotifyOutcomes :
         /\ faults' = faults + Cardinality(failing)
         /\ reqs' = [reqs EXCEPT ![p] =
               IF "populate" \in failing
               THEN [@ EXCEPT !.pc = "uncaught", !.failed = failing]
               ELSE Respond([@ EXCEPT !.failed = failing],
                            CreateAnswer(failing).code, CreateAnswer(failing).error)]
    /\ UNCHANGED <<revision, versionKey, tz, restaurants, bookings>>

CreateNotify(p) ==
    /\ reqs[p].op = "create" /\ reqs[p].pc = "notify"
    /\ \E failing \in NotifyOutcomes :
         /\ faults' = faults + Cardinality(failing)
         /\ reqs' = [reqs EXCEPT ![p] =
               Respond([@ EXCEPT !.failed = failing],
                       CreateAnswer(failing).code, CreateAnswer(failing).error)]
    /\ UNCHANGED <<revision, versionKey, tz, restaurants, bookings>>

----------------------------------------------------------------------------
(* cancelBooking: revision 1 is src/unnamed/part_000:148-275, revision 2 is *)
(* src/unnamed/part_000:436-535                                            *)

\* the ids a cancellation may name: every booking that can exist
RequestBookingIds == 1 .. MaxBookings

\* a PUT /bookings/:id/cancel request arrives
CancelReceive(p) ==
    /\ reqs[p].op = "idle"
    /\ NoneAnswered
    /\ \E user \in Users, bid \in RequestBookingIds :
         reqs' = [reqs EXCEPT ![p] =
                     [Idle EXCEPT !.op = "cancel", !.pc = "begin", !.user = user,
                                  !.bookingId = bid]]
    /\ UNCHANGED <<revision, versionKey, tz, restaurants, bookings, faults>>

\* the lookup and checks without the test of the status: what the handlers
\* would answer if a cancelled booking were cancellable again
CancelCheckIgnoringStatus(bid, user) ==
    IF revision = 1
    THEN IF bid > Len(bookings) THEN [code |-> 404, error |-> "BookingNotFound"]
         ELSE IF bookings[bid].userId # user.id /\ user.role # "admin"
         THEN [code |-> 403, error |-> "NotAuthorized"]
         ELSE [code |-> 0, error |-> "ok"]
    ELSE IF bid > Len(bookings) \/ bookings[bid].userId # user.id
         THEN [code |-> 404, error |-> "NotFoundOrAlreadyCancelled"]
         ELSE [code |-> 0, error |-> "ok"]

\* revision 1, lines 151-180: findById, then owner-or-admin, then not cancelled.
\* revision 2, lines 438-446: one findOne on _id, userId and status.
\* The answer of the lookup and checks: "ok" or the rejection.
CancelCheck(bid, user) ==
    IF revision = 1
    THEN IF bid > Len(bookings) THEN [code |-> 404, error |-> "BookingNotFound"]
         ELSE IF bookings[bid].userId # user.id /\ user.role # "admin"
         THEN [code |-> 403, error |-> "NotAuthorized"]
         ELSE IF bookings[bid].status = "cancelled"
         THEN [code |-> 400, error |-> "AlreadyCancelled"]
         ELSE [code |-> 0, error |-> "ok"]
    ELSE IF \/ bid > Len(bookings)
            \/ bookings[bid].userId # user.id
            \/ bookings[bid].status = "cancelled"
         THEN [code |-> 404, error |-> "NotFoundOrAlreadyCancelled"]
         ELSE [code |-> 0, error |-> "ok"]

CancelBegin(p) ==
    /\ reqs[p].op = "cancel" /\ reqs[p].pc = "begin"
    /\ \E fails \in MayFail :
         /\ faults' = After(fails)
         /\ LET r == reqs[p]
                check == CancelCheck(r.bookingId, r.user)
            IN  reqs' = [reqs EXCEPT ![p] =
                    IF fails
                    THEN Respond([r EXCEPT !.failed = {"findBooking"}],
                                 500, "ErrorCancellingBooking")
                    ELSE IF check.error # "ok"
                    THEN Respond(r, check.code, check.error)
                    ELSE [r EXCEPT !.pc = "saveBooking"]]
    /\ UNCHANGED <<revision, versionKey, tz, restaurants, bookings>>

\* lines 184-185 / 448-449: booking.status = 'cancelled'; await booking.save()
CancelSaveBooking(p) ==
    /\ reqs[p].op = "cancel" /\ reqs[p].pc = "saveBooking"
    /\ \E fails \in MayFail :
         /\ faults' = After(fails)
         /\ IF fails
            THEN /\ reqs' = [reqs EXCEPT ![p] =
                        Respond([@ EXCEPT !.failed = {"saveBooking"}],
                                500, "ErrorCancellingBooking")]
                 /\ UNCHANGED bookings
            ELSE /\ bookings' = [bookings EXCEPT ![reqs[p].bookingId].status = "cancelled"]
                 /\ reqs' = [reqs EXCEPT ![p].pc = "findRestaurant"]
    /\ UNCHANGED <<revision, versionKey, tz, restaurants>>

\* the date entry of the booking: revision 1 (lines 192-195) compares the days
\* in the server's zone, revision 2 (lines 459-461) the UTC days
FindDateForCancel(doc, booking) ==
    IF revision = 1
    THEN FindIndex({ k \in 1 .. Len(doc.availableTables) :
                       LocalDay(doc.availableTables[k].date) = LocalDay(booking.date) })
    ELSE FindIndex({ k \in 1 .. Len(doc.availableTables) :
                       UtcDay(doc.availableTables[k].date) = UtcDay(booking.date) })

\* a table lookup that gives the slot back to the first table of the date entry
FindFirstTable(entry, booking) == FindIndex(1 .. Len(entry.tables))

\* the table to give the slot back to: by bookedTableDefinitionId (line 198,
\* lines 465-469); revision 2 falls back to the first table of the booking's
\* tableSize that lacks the time when the booking has no id (lines 470-476)
FindTableForCancel(entry, booking) ==
    IF booking.bookedTableDefinitionId # 0
    THEN FindIndex({ k \in 1 .. Len(entry.tables) :
                       entry.tables[k].id = booking.bookedTableDefinitionId })
    ELSE FindIndex({ k \in 1 .. Len(entry.tables) :
                       /\ entry.tables[k].tableSize = booking.tableSize
                       /\ ~Includes(entry.tables[k].availableTimes, booking.time) })

\* a table lookup that throws whenever the table is not in the date entry
TableLookupThrowsOnMiss(entry, booking) ==
    \A k \in 1 .. Len(entry.tables) : entry.tables[k].id # booking.bookedTableDefinitionId

\* booking.bookedTableDefinitionId.toString() of a booking without the id throws
\* in revision 1 as soon as the find callback runs (line 198)
TableLookupThrows(entry, booking) ==
    revision = 1 /\ booking.bookedTableDefinitionId = 0 /\ Len(entry.tables) > 0

\* whether the handler writes the restaurant: revision 1 always pushes (line
\* 201), revision 2 only a time that is not there (line 481)
ReleaseWrites(times, time) == revision = 1 \/ ~Includes(times, time)

\* the table's times after the release: revision 1 pushes (line 201),
\* revision 2 pushes and sorts (lines 482-486)
ReleaseSlot(times, time) ==
    IF revision = 1 THEN Append(times, time) ELSE SortTimes(Append(times, time))

\* lines 190-213 / 451-501: Restaurant.findById and the lookups on its copy
CancelFindRestaurant(p) ==
    /\ reqs[p].op = "cancel" /\ reqs[p].pc = "findRestaurant"
    /\ \E fails \in MayFail :
         /\ faults' = After(fails)
         /\ LET r == reqs[p]
                booking == bookings[r.bookingId]
                rid == booking.restaurantId
                doc == restaurants[rid]
                d == FindDateForCancel(doc, booking)
                entry == doc.availableTables[d]
                t == FindTableForCancel(entry, booking)
            IN  reqs' = [reqs EXCEPT ![p] =
                    IF fails
                    THEN Respond([r EXCEPT !.failed = {"findRestaurant"}],
                                 500, "ErrorCancellingBooking")
                    ELSE IF rid \notin DOMAIN restaurants
                    THEN IF revision = 1 THEN [r EXCEPT !.pc = "notify"]
                         ELSE Respond(r, 200, "none")
                    ELSE IF d = 0
                    THEN [r EXCEPT !.pc = "notify"]
                    ELSE IF TableLookupThrows(entry, booking)
                    THEN Respond(r, 500, "ErrorCancellingBooking")
                    ELSE IF t = 0 \/ ~ReleaseWrites(entry.tables[t].availableTimes, booking.time)
                    THEN [r EXCEPT !.pc = "notify"]
                    ELSE [r EXCEPT !.pc = "saveRestaurant", !.restaurant = doc,
                                   !.dateIdx = d, !.tableIdx = t]]
    /\ UNCHANGED <<revision, versionKey, tz, restaurants, bookings>>

\* lines 201-203 / 482-488: the time is put back on the request's copy, then
\* await restaurant.save()
CancelSaveRestaurant(p) ==
    /\ reqs[p].op = "cancel" /\ reqs[p].pc = "saveRestaurant"
    /\ LET r == reqs[p]
           booking == bookings[r.bookingId]
           rid == booking.restaurantId
           old == r.restaurant.availableTables[r.dateIdx].tables[r.tableIdx].availableTimes
           local == SetTimes(r.restaurant, r.dateIdx, r.tableIdx,
                             ReleaseSlot(old, booking.time))
       IN \E fails \in MayFail :
            /\ faults' = After(fails)
            /\ IF fails \/ ~SaveAccepted(restaurants[rid], local)
               THEN /\ reqs' = [reqs EXCEPT ![p] =
                           Respond([@ EXCEPT !.failed = SaveFailure(fails)],
                                   500, "ErrorCancellingBooking")]
                    /\ UNCHANGED restaurants
               ELSE /\ restaurants' = [restaurants EXCEPT ![rid] = Saved(@, local)]
                    /\ reqs' = [reqs EXCEPT ![p].pc = "notify",
                                            ![p].restaurant = NoDoc,
                                            ![p].dateIdx = 0, ![p].tableIdx = 0]
    /\ UNCHANGED <<revision, versionKey, tz, bookings>>

\* what may fail after the cancellation's writes: revision 2 sends no email
CancelNotifyOutcomes ==
    { f \in NotifyOutcomes : revision = 2 => "email" \notin f }

\* lines 217-270 / 503-530: the joined view is read back (a failure of that
\* read reaches the outer catch), the email and the notification record are
\* attempted inside their own try/catch, then the booking is returned
CancelAnswer(failing) ==
    IF "populate" \in failing
    THEN [code |-> 500, error |-> "ErrorCancellingBooking"]
    ELSE [code |-> 200, error |-> "none"]

CancelNotify(p) ==
    /\ reqs[p].op = "cancel" /\ reqs[p].pc = "notify"
    /\ \E failing \in CancelNotifyOutcomes :
         /\ faults' = faults + Cardinality(failing)
         /\ reqs' = [reqs EXCEPT ![p] =
               Respond([@ EXCEPT !.failed = failing],
                       CancelAnswer(failing).code, CancelAnswer(failing).error)]
    /\ UNCHANGED <<revision, versionKey, tz, restaurants, bookings>>

----------------------------------------------------------------------------
\* the response has been sent; the slot serves the next request
Retire(p) ==
    /\ reqs[p].pc = "done"
    /\ reqs' = [reqs EXCEPT ![p] = Idle]
    /\ UNCHANGED <<revision, versionKey, tz, restaurants, bookings, faults>>

----------------------------------------------------------------------------
(* Initial state *)

Init ==
    /\ revision \in Revisions
    /\ versionKey \in BOOLEAN
    /\ tz \in ServerUtcOffsets
    /\ faults = 0
    /\ restaurants = [ r \in SeedRestaurantIds |-> SeedRestaurant ]
    /\ bookings = << >>
    /\ reqs = [ p \in Procs |-> Idle ]

Next ==
    \E p \in Procs :
        \/ CreateReceive(p)
        \/ CreateBegin(p)
        \/ CreateSaveBooking(p)
        \/ CreateSaveRestaurant(p)
        \/ CreateIncCounter(p)
        \/ CreateNotify(p)
        \/ CancelReceive(p)
        \/ CancelBegin(p)
        \/ CancelSaveBooking(p)
        \/ CancelFindRestaurant(p)
        \/ CancelSaveRestaurant(p)
        \/ CancelNotify(p)
        \/ Retire(p)

Spec == Init /\ [][Next]_vars

----------------------------------------------------------------------------
(* One request at a time, over a wider inventory and wider request bodies *)

\* Two restaurants.  The first has two date entries; its first day has a table
\* for 4 ahead of a table for 2, both open at every seeded time.
WideRestaurants ==
    [ rid \in {1, 2} |->
        [ v |-> 0,
          availableTables |->
            IF rid = 1
            THEN << [date |-> SeedDate,
                     tables |-> << [id |-> 1, tableSize |-> 4, availableTimes |-> SeedTimes],
                                   [id |-> 2, tableSize |-> 2, availableTimes |-> SeedTimes] >>],
                    [date |-> SeedDate + 24,
                     tables |-> << [id |-> 3, tableSize |-> 2,
                                    availableTimes |-> <<SeedTimes[1]>>] >>] >>
            ELSE << [date |-> SeedDate,
                     tables |-> << [id |-> 4, tableSize |-> 2,
                                    availableTimes |-> SeedTimes] >>] >>,
          timesBookedToday |-> 0,
          isApproved |-> TRUE, city |-> SeedCity, zip |-> SeedZip ] ]

\* req.body of createBooking: bodies that name a restaurant, a day and a time,
\* for parties that fit a table, fit only the larger one, or fit none; and
\* bodies that lack a field, name an unknown restaurant, or carry a party size
\* that is zero, negative or not a number
WideBodies ==
    { [restaurantId |-> rid, date |-> date, time |-> time, partySize |-> ps] :
        rid \in {1, 2}, date \in {SeedDate + 13, SeedDate + 24, SeedDate + 48},
        time \in {SeedTimes[1], SeedTimes[NumSlots], <<18, 15>>},
        ps \in {Num(2), Num(3), Num(4), Num(5), Str(2)} }
    \cup
    { [restaurantId |-> rid, date |-> date, time |-> time, partySize |-> ps] :
        rid \in {NoId, 1, 3}, date \in {NoDate, SeedDate + 13},
        time \in {NoTime, SeedTimes[1]},
        ps \in {Absent, Num(0), Num(-1), Str(0), Str(-1), NotANumber, Num(2)} }

\* a POST /bookings request arrives, with any of the wider bodies
CreateReceiveWide(p) ==
    /\ reqs[p].op = "idle"
    /\ NoneAnswered
    /\ Len(bookings) + InFlight("create") < MaxBookings
    /\ \E user \in Bookers, body \in WideBodies :
         reqs' = [reqs EXCEPT ![p] =
                     [Idle EXCEPT !.op = "create", !.pc = "begin", !.user = user,
                                  !.restaurantId = body.restaurantId,
                                  !.date = body.date, !.time = body.time,
                                  !.partySize = body.partySize]]
    /\ UNCHANGED <<revision, versionKey, tz, restaurants, bookings, faults>>

\* no handler is running
AllIdle == \A p \in Procs : reqs[p].pc = "idle"

\* deleteRestaurant, src/unnamed/part_001:499-520, by the restaurant's manager
\* or an admin: Restaurant.findOneAndDelete
DeleteRestaurant(rid) ==
    /\ AllIdle
    /\ rid \in DOMAIN restaurants
    /\ restaurants' = [r \in DOMAIN restaurants \ {rid} |-> restaurants[r]]
    /\ UNCHANGED <<revision, versionKey, tz, bookings, reqs, faults>>

\* the availableTables a manager may send to updateRestaurant: no date entry
\* at all, or every date entry without its first table
UpdateBodies(doc) ==
    { << >>,
      [ d \in 1 .. Len(doc.availableTables) |->
          [ doc.availableTables[d] EXCEPT
              !.tables = IF @ = << >> THEN @ ELSE Tail(@) ] ] }

\* updateRestaurant, src/unnamed/part_001:479-497, by the restaurant's manager:
\* Object.assign(restaurant, req.body); await restaurant.save()
UpdateRestaurant(rid) ==
    /\ AllIdle
    /\ rid \in DOMAIN restaurants
    /\ \E body \in UpdateBodies(restaurants[rid]) :
         /\ body # restaurants[rid].availableTables
         /\ restaurants' = [restaurants EXCEPT ![rid] =
                               Saved(@, [@ EXCEPT !.availableTables = body])]
    /\ UNCHANGED <<revision, versionKey, tz, bookings, reqs, faults>>

\* the handlers run one at a time, as the single request 1
InitSeq ==
    /\ revision \in Revisions
    /\ versionKey = TRUE
    /\ tz \in ServerUtcOffsets
    /\ faults = MaxFaults          \* every collaborator call succeeds
    /\ restaurants = WideRestaurants
    /\ bookings = << >>
    /\ reqs = [p \in Procs |-> Idle]

NextSeq ==
    \/ CreateReceiveWide(1)
    \/ CreateBegin(1)
    \/ CreateSaveBooking(1)
    \/ CreateSaveRestaurant(1)
    \/ CreateIncCounter(1)
    \/ CreateNotify(1)
    \/ CancelReceive(1)
    \/ CancelBegin(1)
    \/ CancelSaveBooking(1)
    \/ CancelFindRestaurant(1)
    \/ CancelSaveRestaurant(1)
    \/ CancelNotify(1)
    \/ Retire(1)
    \/ \E rid \in {1, 2} : DeleteRestaurant(rid)
    \/ \E rid \in {1, 2} : UpdateRestaurant(rid)

SpecSeq == InitSeq /\ [][NextSeq]_vars

----------------------------------------------------------------------------
(* searchRestaurants, src/unnamed/part_001:278-411, as request 2, while    *)
(* request 1 books and cancels                                             *)

\* Three listings on the seeded day.  Restaurant 1 offers a table for 2 at the
\* seeded times; restaurant 2, in another city, a table for 4 at the last
\* seeded time and late in the evening; restaurant 3, in the city of
\* restaurant 1, the seeded table, and is not approved.
SearchRestaurants ==
    [ rid \in {1, 2, 3} |->
        [ v |-> 0,
          availableTables |->
            IF rid = 2
            THEN << [date |-> SeedDate,
                     tables |-> << [id |-> 2, tableSize |-> 4,
                                    availableTimes |->
                                        <<SeedTimes[NumSlots], <<23, 30>> >>] >>] >>
            ELSE << [date |-> SeedDate,
                     tables |-> << [id |-> rid, tableSize |-> 2,
                                    availableTimes |-> SeedTimes] >>] >>,
          timesBookedToday |-> 0,
          isApproved |-> rid # 3,
          city |-> IF rid = 2 THEN <<"L", "a">> ELSE SeedCity,
          zip |-> IF rid = 2 THEN <<"9", "0">> ELSE SeedZip ] ]

\* a time string moment cannot parse as HH:mm
Unparseable == <<25, 0>>

\* req.query of a search: location is absent, part of a city name in another
\* case, a whole zip code, or part of a zip code; date is absent or the string
\* of a UTC calendar day, held as the number of that day; time is absent, a
\* time of day, or unparseable; partySize is absent or a string
SearchQueries ==
    { [location |-> l, date |-> d, time |-> t, partySize |-> ps] :
        l \in { << >>, <<"s">>, <<"9", "0">>, <<"9">> },
        d \in { NoDate, UtcDay(SeedDate), UtcDay(SeedDate) + 1 },
        t \in { NoTime, <<18, 15>>, <<19, 0>>, <<19, 1>>, <<23, 45>>, Unparseable },
        ps \in { Absent, Str(2), Str(4), Str(0), Str(-1), NotANumber } }

\* a GET /restaurants/search request arrives with its query; the route is public
SearchReceive(p) ==
    /\ reqs[p].op = "idle"
    /\ NoneAnswered
    /\ \E query \in SearchQueries :
         reqs' = [reqs EXCEPT ![p] =
                     [Idle EXCEPT !.op = "search", !.pc = "aggregate",
                                  !.location = query.location,
                                  !.date = query.date, !.time = query.time,
                                  !.partySize = query.partySize]]
    /\ UNCHANGED <<revision, versionKey, tz, restaurants, bookings, faults>>

\* a letter in lower case, for the 'i' flag of the RegExp
ToLowerCase(c) ==
    CASE c = "S" -> "s"
      [] c = "L" -> "l"
      [] OTHER -> c

\* new RegExp(location, 'i').test(text), for a location of plain characters
RegExpTest(location, text) ==
    \E i \in 0 .. Len(text) - Len(location) :
        \A j \in 1 .. Len(location) :
            ToLowerCase(location[j]) = ToLowerCase(text[i + j])

\* lines 286-291: with a location,
\* $or: [ { 'address.city': new RegExp(location, 'i') }, { 'address.zip': location } ]
MatchesLocation(doc, location) ==
    \/ location = << >>
    \/ RegExpTest(location, doc.city)
    \/ doc.zip = location

\* an initial query that lists a restaurant whether approved or not
MatchesWhateverApproval(doc, location) == MatchesLocation(doc, location)

\* line 284: initialQuery = { isApproved: true }, with the location if any
MatchesInitialQuery(doc, location) ==
    /\ doc.isApproved
    /\ MatchesLocation(doc, location)

\* line 293: date && time
HasDateAndTime(r) == r.date # NoDate /\ r.time # NoTime

\* line 295: new Date(Date.UTC(year, month - 1, day)) of the date string
SearchDate(day) == 24 * day

\* lines 300-303: filterByPartySize
FilterByPartySize(ps) ==
    /\ ~Falsy(ps)
    /\ ~ParsesToNaN(ps)
    /\ ParseInt(ps) > 0

\* moment(time, 'HH:mm').isValid()
IsValidTime(time) == time[1] \in 0 .. 23 /\ time[2] \in 0 .. 59

\* moment.format('HH:mm') of a moment that many minutes from the midnight of
\* the current day: the time of day, whatever the day
FormatHHmm(minutes) == << (minutes % 1440) \div 60, minutes % 60 >>

\* $gte and $lte of two "HH:mm" strings: the order of strings
StringLte(a, b) == a[1] < b[1] \/ (a[1] = b[1] /\ a[2] <= b[2])

\* lines 321-325: startTimeStr and endTimeStr
StartTimeStr(time) == FormatHHmm(Minutes(time) - 30)
EndTimeStr(time) == FormatHHmm(Minutes(time) + 30)

\* lines 351-383: the tables of the date entry that pass the size filter and
\* list a time in the window
MatchingTables(entry, r) ==
    { k \in 1 .. Len(entry.tables) :
        /\ FilterByPartySize(r.partySize)
             => entry.tables[k].tableSize >= ParseInt(r.partySize)
        /\ \E i \in 1 .. Len(entry.tables[k].availableTimes) :
             LET slot == entry.tables[k].availableTimes[i]
             IN  /\ StringLte(StartTimeStr(r.time), slot)
                 /\ StringLte(slot, EndTimeStr(r.time)) }

\* lines 331-386: the first date entry whose date is searchDate, if any, has a
\* matching table
PassesPipeline(doc, r) ==
    LET dateEntry == { k \in 1 .. Len(doc.availableTables) :
                         doc.availableTables[k].date = SearchDate(r.date) }
    IN  /\ dateEntry # {}
        /\ MatchingTables(doc.availableTables[FindIndex(dateEntry)], r) # {}

\* lines 329-403: the _ids of the restaurants the aggregation returns
SearchResult(r) ==
    { rid \in DOMAIN restaurants :
        /\ MatchesInitialQuery(restaurants[rid], r.location)
        /\ HasDateAndTime(r) => PassesPipeline(restaurants[rid], r) }

\* a validation that turns no query away
SearchRejectionNever(r) == "none"

\* a validation that also turns away a party size that is not a positive number
SearchRejectionStrict(r) ==
    IF HasDateAndTime(r) /\ ~Falsy(r.partySize) /\ ~FilterByPartySize(r.partySize)
    THEN "InvalidPartySize"
    ELSE IF HasDateAndTime(r) /\ ~IsValidTime(r.time)
    THEN "InvalidTimeFormat"
    ELSE "none"

\* lines 297-315: what the handler turns the query away for.  An invalid
\* partySize is logged and ignored.
SearchRejection(r) ==
    IF HasDateAndTime(r) /\ ~IsValidTime(r.time)
    THEN "InvalidTimeFormat"
    ELSE "none"

\* an aggregation that counts a hit on every restaurant it returns
AggregatedCountingHits(list) ==
    [ rid \in DOMAIN restaurants |->
        IF rid \in list
        THEN [restaurants[rid] EXCEPT !.timesBookedToday = @ + 1]
        ELSE restaurants[rid] ]

\* Restaurant.aggregate(pipeline) reads: the collection after it
Aggregated(list) == restaurants

\* line 405: res.json(restaurants); req.query stays with the answered request
RespondList(r, list) ==
    [r EXCEPT !.pc = "done", !.resp = [code |-> 200, error |-> "none"],
              !.list = list]

\* lines 293-410: the query is checked, the pipeline is run by
\* await Restaurant.aggregate(...), and the list is sent
SearchAggregate(p) ==
    /\ reqs[p].op = "search" /\ reqs[p].pc = "aggregate"
    /\ LET r == reqs[p]
           rejection == SearchRejection(r)
           list == SearchResult(r)
       IN \E fails \in MayFail :
            /\ fails => rejection = "none"
            /\ faults' = After(fails)
            /\ IF rejection # "none"
               THEN /\ reqs' = [reqs EXCEPT ![p] = Respond(r, 400, rejection)]
                    /\ UNCHANGED restaurants
               ELSE IF fails
               THEN /\ reqs' = [reqs EXCEPT ![p] =
                           Respond([r EXCEPT !.failed = {"aggregate"}],
                                   500, "ErrorSearchingRestaurants")]
                    /\ UNCHANGED restaurants
               ELSE /\ reqs' = [reqs EXCEPT ![p] = RespondList(r, list)]
                    /\ restaurants' = Aggregated(list)
    /\ UNCHANGED <<revision, versionKey, tz, bookings>>

\* request 1 books and cancels through the version-checked store while
\* request 2 searches
InitSearch ==
    /\ revision \in Revisions
    /\ versionKey = TRUE
    /\ tz \in ServerUtcOffsets
    /\ faults = MaxFaults         \* every collaborator call succeeds
    /\ restaurants = SearchRestaurants
    /\ bookings = << >>
    /\ reqs = [p \in Procs |-> Idle]

NextSearch ==
    \/ CreateReceive(1)
    \/ CreateBegin(1)
    \/ CreateSaveBooking(1)
    \/ CreateSaveRestaurant(1)
    \/ CreateIncCounter(1)
    \/ CreateNotify(1)
    \/ CancelReceive(1)
    \/ CancelBegin(1)
    \/ CancelSaveBooking(1)
    \/ CancelFindRestaurant(1)
    \/ CancelSaveRestaurant(1)
    \/ CancelNotify(1)
    \/ SearchReceive(2)
    \/ SearchAggregate(2)
    \/ Retire(1)
    \/ Retire(2)

SpecSearch == InitSearch /\ [][NextSearch]_vars

----------------------------------------------------------------------------
(* Bookings from before bookedTableDefinitionId existed, cancelled one     *)
(* request at a time                                                       *)

\* One restaurant, one day: a table for 2 that lists every seeded time, then
\* a table for 4 and two tables for 2 that lack the first seeded time.
LegacyRestaurants ==
    [ rid \in SeedRestaurantIds |->
        [ SeedRestaurant EXCEPT
            !.availableTables =
                << [date |-> SeedDate,
                    tables |->
                      << [id |-> 1, tableSize |-> 2, availableTimes |-> SeedTimes],
                         [id |-> 2, tableSize |-> 4, availableTimes |-> Tail(SeedTimes)],
                         [id |-> 3, tableSize |-> 2, availableTimes |-> Tail(SeedTimes)],
                         [id |-> 4, tableSize |-> 2, availableTimes |-> Tail(SeedTimes)] >>] >> ] ]

\* the confirmed bookings an earlier release left behind: no
\* bookedTableDefinitionId, a time the tables lack or list, a tableSize that
\* two tables, one table or no table has
LegacyBookings ==
    { [ userId |-> 1, restaurantId |-> 1, date |-> SeedDate, time |-> time,
        partySize |-> 2, tableSize |-> size, bookedTableDefinitionId |-> 0,
        status |-> "confirmed" ] :
        time \in { SeedTimes[1], SeedTimes[NumSlots] }, size \in {2, 4, 6} }

InitLegacy ==
    /\ revision \in Revisions
    /\ versionKey = TRUE
    /\ tz \in ServerUtcOffsets
    /\ faults = MaxFaults          \* every collaborator call succeeds
    /\ restaurants = LegacyRestaurants
    /\ \E booking \in LegacyBookings : bookings = << booking >>
    /\ reqs = [p \in Procs |-> Idle]

NextLegacy ==
    \/ CreateReceive(1)
    \/ CreateBegin(1)
    \/ CreateSaveBooking(1)
    \/ CreateSaveRestaurant(1)
    \/ CreateIncCounter(1)
    \/ CreateNotify(1)
    \/ CancelReceive(1)
    \/ CancelBegin(1)
    \/ CancelSaveBooking(1)
    \/ CancelFindRestaurant(1)
    \/ CancelSaveRestaurant(1)
    \/ CancelNotify(1)
    \/ Retire(1)

SpecLegacy == InitLegacy /\ [][NextLegacy]_vars

----------------------------------------------------------------------------
(* Servers in several time zones and date entries stored at several hours  *)
(* of the day, one request at a time                                       *)

\* the server's zone: west of Greenwich, Greenwich, east of Greenwich
ZoneOffsets == { -5, 0, 9 }

\* the hour of the UTC day at which a manager's client dated the entries
EntryHours == { 0, 10, 20 }

\* One restaurant with an entry on the day before the seeded day and an entry
\* on the seeded day, both dated at the given hour, each with its own table
ZoneRestaurants(hour) ==
    [ rid \in SeedRestaurantIds |->
        [ SeedRestaurant EXCEPT
            !.availableTables =
                << [date |-> SeedDate - 24 + hour,
                    tables |-> << [id |-> 1, tableSize |-> 2,
                                   availableTimes |-> SeedTimes] >>],
                   [date |-> SeedDate + hour,
                    tables |-> << [id |-> 2, tableSize |-> 2,
                                   availableTimes |-> SeedTimes] >>] >> ] ]

InitZone ==
    /\ revision \in Revisions
    /\ versionKey = TRUE
    /\ tz \in ZoneOffsets
    /\ faults = MaxFaults          \* every collaborator call succeeds
    /\ \E hour \in EntryHours : restaurants = ZoneRestaurants(hour)
    /\ bookings = << >>
    /\ reqs = [p \in Procs |-> Idle]

NextZone ==
    \/ CreateReceive(1)
    \/ CreateBegin(1)
    \/ CreateSaveBooking(1)
    \/ CreateSaveRestaurant(1)
    \/ CreateIncCounter(1)
    \/ CreateNotify(1)
    \/ CancelReceive(1)
    \/ CancelBegin(1)
    \/ CancelSaveBooking(1)
    \/ CancelFindRestaurant(1)
    \/ CancelSaveRestaurant(1)
    \/ CancelNotify(1)
    \/ SearchReceive(1)
    \/ SearchAggregate(1)
    \/ Retire(1)

SpecZone == InitZone /\ [][NextZone]_vars

----------------------------------------------------------------------------
(* A booking client and a cancelling client, with every awaited call settling *)

\* the next step of the handler that serves request p: the continuation of an
\* await, which runs once the awaited call has returned or thrown
HandlerStep(p) ==
    \/ CreateBegin(p)
    \/ CreateSaveBooking(p)
    \/ CreateSaveRestaurant(p)
    \/ CreateIncCounter(p)
    \/ CreateNotify(p)
    \/ CancelBegin(p)
    \/ CancelSaveBooking(p)
    \/ CancelFindRestaurant(p)
    \/ CancelSaveRestaurant(p)
    \/ CancelNotify(p)

\* every awaited call settles and the event loop runs its continuation
Settling == \A p \in Procs : WF_vars(HandlerStep(p))

\* one client books while another cancels
NextLive ==
    \/ CreateReceive(1)
    \/ CancelReceive(2)
    \/ \E p \in Procs :
        \/ CreateBegin(p)
        \/ CreateSaveBooking(p)
        \/ CreateSaveRestaurant(p)
        \/ CreateIncCounter(p)
        \/ CreateNotify(p)
        \/ CancelBegin(p)
        \/ CancelSaveBooking(p)
        \/ CancelFindRestaurant(p)
        \/ CancelSaveRestaurant(p)
        \/ CancelNotify(p)
        \/ Retire(p)

SpecLive == Init /\ [][NextLive]_vars /\ Settling

----------------------------------------------------------------------------
(* The restaurant routes, src/unnamed/part_002:104-111, and their handlers  *)
(* in src/unnamed/part_001, served one request at a time                    *)

MaxRestaurants == 2  \* restaurant documents in the store

\* req.user of the callers of the restaurant routes: two managers, the admin
\* and a customer
Managers == { [id |-> 4, role |-> "manager"], [id |-> 5, role |-> "manager"] }

Callers == Managers \cup { u \in Users : u.id \in {1, 3} }

\* authorize(...roles), src/booktable/backend/src/middleware/auth.js:36-50
Authorize(roles, user) == user.role \in roles

\* the _ids a new document can get
RestaurantIds == 1 .. MaxRestaurants

\* new Restaurant(newRestaurantData): the flags are set by the handler, the
\* counter and availableTables by the schema defaults
NewRestaurant(user) ==
    [ v |-> 0, availableTables |-> << >>, timesBookedToday |-> 0,
      isApproved |-> FALSE, isPending |-> TRUE, managerId |-> user.id,
      city |-> SeedCity, zip |-> SeedZip ]

\* the request is answered in the step that serves it
AnswerAs(op, user, rid, code, error) ==
    [Idle EXCEPT !.op = op, !.pc = "done", !.user = user, !.restaurantId = rid,
                 !.resp = [code |-> code, error |-> error]]

\* POST /restaurants: authorize('manager'), then createRestaurant, lines
\* 88-173, without a photo
CreateRestaurant(p) ==
    /\ reqs[p].op = "idle"
    /\ NoneAnswered
    /\ \E user \in Callers :
         IF ~Authorize({"manager"}, user)
         THEN /\ reqs' = [reqs EXCEPT ![p] =
                    AnswerAs("createRestaurant", user, 0, 403, "NotAuthorized")]
              /\ UNCHANGED restaurants
         ELSE \E rid \in RestaurantIds \ DOMAIN restaurants :
                /\ \A other \in RestaurantIds \ DOMAIN restaurants : rid <= other
                /\ restaurants' = [ r \in DOMAIN restaurants \cup {rid} |->
                                      IF r = rid THEN NewRestaurant(user)
                                      ELSE restaurants[r] ]
                /\ reqs' = [reqs EXCEPT ![p] =
                      AnswerAs("createRestaurant", user, rid, 201, "none")]
    /\ UNCHANGED <<revision, versionKey, tz, bookings, faults>>

\* req.body of PUT /restaurants/:id: any fields of the document
UpdateFieldBodies ==
    { [isApproved |-> TRUE],
      [isApproved |-> FALSE, isPending |-> FALSE],
      [city |-> <<"L", "a">>],
      [availableTables |-> << [date |-> SeedDate, tables |-> SeedTables] >>] }

\* Object.assign(restaurant, req.body)
ObjectAssign(doc, body) ==
    [ f \in DOMAIN doc |-> IF f \in DOMAIN body THEN body[f] ELSE doc[f] ]

\* PUT /restaurants/:id: authorize('manager'), then updateRestaurant, lines
\* 479-497: findOne({_id, managerId: req.user._id}), Object.assign, save
UpdateRestaurantFields(p) ==
    /\ reqs[p].op = "idle"
    /\ NoneAnswered
    /\ \E user \in Callers, rid \in RestaurantIds, body \in UpdateFieldBodies :
         IF ~Authorize({"manager"}, user)
         THEN /\ reqs' = [reqs EXCEPT ![p] =
                    AnswerAs("updateRestaurant", user, rid, 403, "NotAuthorized")]
              /\ UNCHANGED restaurants
         ELSE IF \/ rid \notin DOMAIN restaurants
                 \/ restaurants[rid].managerId # user.id
         THEN /\ reqs' = [reqs EXCEPT ![p] =
                    AnswerAs("updateRestaurant", user, rid, 404, "RestaurantNotFound")]
              /\ UNCHANGED restaurants
         ELSE /\ restaurants' = [restaurants EXCEPT ![rid] =
                                    ObjectAssign(@, body)]
              /\ reqs' = [reqs EXCEPT ![p] =
                    AnswerAs("updateRestaurant", user, rid, 200, "none")]
    /\ UNCHANGED <<revision, versionKey, tz, bookings, faults>>

\* DELETE /restaurants/:id: authorize('manager', 'admin'), then
\* deleteRestaurant, lines 499-520: a manager deletes only their own
DeleteRestaurantAs(p) ==
    /\ reqs[p].op = "idle"
    /\ NoneAnswered
    /\ \E user \in Callers, rid \in RestaurantIds :
         IF ~Authorize({"manager", "admin"}, user)
         THEN /\ reqs' = [reqs EXCEPT ![p] =
                    AnswerAs("deleteRestaurant", user, rid, 403, "NotAuthorized")]
              /\ UNCHANGED restaurants
         ELSE IF \/ rid \notin DOMAIN restaurants
                 \/ (user.role = "manager" /\ restaurants[rid].managerId # user.id)
         THEN /\ reqs' = [reqs EXCEPT ![p] =
                    AnswerAs("deleteRestaurant", user, rid, 404, "RestaurantNotFound")]
              /\ UNCHANGED restaurants
         ELSE /\ restaurants' = [ r \in DOMAIN restaurants \ {rid} |-> restaurants[r] ]
              /\ reqs' = [reqs EXCEPT ![p] =
                    AnswerAs("deleteRestaurant", user, rid, 200, "none")]
    /\ UNCHANGED <<revision, versionKey, tz, bookings, faults>>

\* PUT /restaurants/:id/approve: authorize('admin'), then approveRestaurant,
\* lines 522-543: findByIdAndUpdate(id, {isApproved: true, isPending: false})
ApproveRestaurant(p) ==
    /\ reqs[p].op = "idle"
    /\ NoneAnswered
    /\ \E user \in Callers, rid \in RestaurantIds :
         IF ~Authorize({"admin"}, user) \/ user.role # "admin"
         THEN /\ reqs' = [reqs EXCEPT ![p] =
                    AnswerAs("approveRestaurant", user, rid, 403, "NotAuthorized")]
              /\ UNCHANGED restaurants
         ELSE IF rid \notin DOMAIN restaurants
         THEN /\ reqs' = [reqs EXCEPT ![p] =
                    AnswerAs("approveRestaurant", user, rid, 404, "RestaurantNotFound")]
              /\ UNCHANGED restaurants
         ELSE /\ restaurants' = [restaurants EXCEPT ![rid].isApproved = TRUE,
                                                    ![rid].isPending = FALSE]
              /\ reqs' = [reqs EXCEPT ![p] =
                    AnswerAs("approveRestaurant", user, rid, 200, "none")]
    /\ UNCHANGED <<revision, versionKey, tz, bookings, faults>>

\* PUT /restaurants/:id/hold: authorize('admin'), then setRestaurantOnHold,
\* lines 548-572
SetRestaurantOnHold(p) ==
    /\ reqs[p].op = "idle"
    /\ NoneAnswered
    /\ \E user \in Callers, rid \in RestaurantIds :
         IF ~Authorize({"admin"}, user)
         THEN /\ reqs' = [reqs EXCEPT ![p] =
                    AnswerAs("setRestaurantOnHold", user, rid, 403, "NotAuthorized")]
              /\ UNCHANGED restaurants
         ELSE IF rid \notin DOMAIN restaurants
         THEN /\ reqs' = [reqs EXCEPT ![p] =
                    AnswerAs("setRestaurantOnHold", user, rid, 404, "RestaurantNotFound")]
              /\ UNCHANGED restaurants
         ELSE /\ restaurants' = [restaurants EXCEPT ![rid].isApproved = FALSE,
                                                    ![rid].isPending = TRUE]
              /\ reqs' = [reqs EXCEPT ![p] =
                    AnswerAs("setRestaurantOnHold", user, rid, 200, "none")]
    /\ UNCHANGED <<revision, versionKey, tz, bookings, faults>>

\* the store holds no restaurant yet
InitManage ==
    /\ revision \in Revisions
    /\ versionKey = TRUE
    /\ tz \in ServerUtcOffsets
    /\ faults = MaxFaults         \* every collaborator call succeeds
    /\ restaurants = [ r \in {} |-> NoDoc ]
    /\ bookings = << >>
    /\ reqs = [p \in Procs |-> Idle]

NextManage ==
    \/ CreateRestaurant(1)
    \/ UpdateRestaurantFields(1)
    \/ DeleteRestaurantAs(1)
    \/ ApproveRestaurant(1)
    \/ SetRestaurantOnHold(1)
    \/ Retire(1)

SpecManage == InitManage /\ [][NextManage]_vars

----------------------------------------------------------------------------
(* Vocabulary of the properties *)

\* no request is in flight
Quiescent == \A p \in Procs : reqs[p].pc \in {"idle", "done"}

\* booking i is confirmed and references table tid of restaurant rid on the
\* UTC day of entryDate at time
ConfirmedOn(i, rid, tid, entryDate, time) ==
    /\ bookings[i].status = "confirmed"
    /\ bookings[i].restaurantId = rid
    /\ bookings[i].bookedTableDefinitionId = tid
    /\ UtcDay(bookings[i].date) = UtcDay(entryDate)
    /\ bookings[i].time = time

\* bookings i and j reference the same restaurant, table, date and time
SameSlot(i, j) ==
    /\ bookings[i].restaurantId = bookings[j].restaurantId
    /\ bookings[i].bookedTableDefinitionId = bookings[j].bookedTableDefinitionId
    /\ bookings[i].date = bookings[j].date
    /\ bookings[i].time = bookings[j].time

SeededTimes == { SeedTimes[i] : i \in 1 .. NumSlots }

\* request p is an answered request of kind op
Answered(p, op) == reqs[p].op = op /\ reqs[p].pc = "done"

----------------------------------------------------------------------------
(* Properties *)

\* C1: whenever no request is in flight, a seeded time S is in a table's
\* availableTimes if and only if no confirmed booking references that
\* restaurant, table, date and time.  Stated for the runs in which no
\* collaborator call failed.
C1_SlotFreeIffNoConfirmedBooking ==
    (Quiescent /\ faults = 0) =>
        \A rid \in DOMAIN restaurants :
          \A d \in 1 .. Len(restaurants[rid].availableTables) :
            LET entry == restaurants[rid].availableTables[d]
            IN  \A t \in 1 .. Len(entry.tables), S \in SeededTimes :
                  Includes(entry.tables[t].availableTimes, S)
                    <=> ~\E i \in 1 .. Len(bookings) :
                            ConfirmedOn(i, rid, entry.tables[t].id, entry.date, S)

\* C2: there are never two confirmed bookings that share restaurantId,
\* bookedTableDefinitionId, date and time.  Stated for the runs in which no
\* collaborator call failed.
C2_NoDoubleBooking ==
    faults = 0 =>
        \A i, j \in 1 .. Len(bookings) :
            (i # j /\ bookings[i].status = "confirmed"
                   /\ bookings[j].status = "confirmed") => ~SameSlot(i, j)

\* C3: when two createBooking requests were matched to the same slot, one is
\* answered 201 and the other is answered with the retryable
\* slot-no-longer-available conflict.  Stated for the runs in which no
\* collaborator call failed.
C3_OneWinnerOneConflict ==
    faults = 0 =>
        \A p, q \in Procs :
            ( /\ p # q /\ Answered(p, "create") /\ Answered(q, "create")
              /\ reqs[p].bookingId # 0 /\ reqs[q].bookingId # 0
              /\ SameSlot(reqs[p].bookingId, reqs[q].bookingId) )
            => \E w, l \in {p, q} :
                  /\ w # l
                  /\ reqs[w].resp.code = 201
                  /\ reqs[l].resp.error = "SlotNoLongerAvailable"

\* the stored availableTimes of the table that booking i references, on the
\* booking's UTC day (<<>> when the restaurant has no such table)
StoredTimes(i) ==
    LET doc == restaurants[bookings[i].restaurantId]
        d == FindDateUtc(doc, bookings[i].date)
        t == IF d = 0 THEN 0
             ELSE FindIndex({ k \in 1 .. Len(doc.availableTables[d].tables) :
                                doc.availableTables[d].tables[k].id
                                  = bookings[i].bookedTableDefinitionId })
    IN  IF d = 0 \/ t = 0 THEN <<>>
        ELSE doc.availableTables[d].tables[t].availableTimes

\* times is in chronological order and has no duplicate
Chronological(times) ==
    \A a, b \in 1 .. Len(times) : a < b => Minutes(times[a]) < Minutes(times[b])

\* C4: a successful createBooking followed immediately by a successful
\* cancelBooking of the resulting booking leaves the matched table's
\* availableTimes as the chronological, duplicate-free sequence it was before
\* the create.  The step is the cancellation's restaurant.save(): the
\* cancellation runs alone on an up-to-date copy of the restaurant, the
\* booking is the only one ever made, and the stored times are the seeded
\* times less the booked one; after the step the stored times must be the
\* seeded times again, in the same order.
C4_RoundTripRestoresTimes ==
    [][ \A p \in Procs :
          ( /\ reqs[p].op = "cancel" /\ reqs[p].pc = "saveRestaurant"
            /\ reqs'[p].pc = "notify"
            /\ \A q \in Procs \ {p} : reqs[q].pc \in {"idle", "done"}
            /\ faults = 0
            /\ Len(bookings) = 1
            /\ reqs[p].restaurant = restaurants[bookings[1].restaurantId]
            /\ Chronological(SeedTimes)
            /\ StoredTimes(1) = WithoutTime(SeedTimes, bookings[1].time) )
          => restaurants'[bookings[1].restaurantId].availableTables
                = SeedRestaurant.availableTables ]_vars

\* the requester may cancel the booking: its owner, or (revision 1) an admin
MayCancel(user, booking) ==
    booking.userId = user.id \/ (revision = 1 /\ user.role = "admin")

\* C5: a cancelBooking by a permitted requester on a booking whose status is
\* already 'cancelled', whose lookup does not fail, is rejected with the
\* already-cancelled error (400 'Booking is already cancelled' in revision 1,
\* 404 'Booking not found or already cancelled' in revision 2) and leaves
\* every booking record and every table's availableTimes unchanged.
C5_SecondCancelRejected ==
    [][ \A p \in Procs :
          ( /\ reqs[p].op = "cancel" /\ reqs[p].pc = "begin"
            /\ reqs'[p].pc # "begin"
            /\ faults' = faults
            /\ reqs[p].bookingId <= Len(bookings)
            /\ bookings[reqs[p].bookingId].status = "cancelled"
            /\ MayCancel(reqs[p].user, bookings[reqs[p].bookingId]) )
          => /\ reqs'[p].pc = "done"
             /\ reqs'[p].resp \in
                  { [code |-> 400, error |-> "AlreadyCancelled"],
                    [code |-> 404, error |-> "NotFoundOrAlreadyCancelled"] }
             /\ bookings' = bookings
             /\ restaurants' = restaurants ]_vars

\* C5 happens: in revision 1 a cancellation of a cancelled booking has been
\* answered 400 (the answer given only to the owner or an admin)
C5_Witness ==
    \E p \in Procs :
        /\ Answered(p, "cancel")
        /\ reqs[p].resp = [code |-> 400, error |-> "AlreadyCancelled"]
        /\ bookings[reqs[p].bookingId].status = "cancelled"

\* C6: once a createBooking has failed at restaurant.save(), after its booking
\* was persisted and before its slot was removed, a createBooking that starts
\* afterwards is not matched to that booking's table, date and time (a matched
\* request goes on to persist a confirmed booking without a further check).
C6_NoMatchAfterFailedSlotRemoval ==
    [][ \A p, q \in Procs :
          ( /\ p # q
            /\ Answered(p, "create") /\ reqs[p].failed = {"saveRestaurant"}
            /\ bookings[reqs[p].bookingId].status = "confirmed"
            /\ reqs[q].op = "create" /\ reqs[q].pc = "begin"
            /\ reqs'[q].pc = "saveBooking" )
          => LET b == bookings[reqs[p].bookingId]
                 r == reqs'[q]
             IN  ~( /\ r.restaurantId = b.restaurantId
                    /\ UtcDay(r.date) = UtcDay(b.date)
                    /\ r.time = b.time
                    /\ r.restaurant.availableTables[r.dateIdx].tables[r.tableIdx].id
                         = b.bookedTableDefinitionId ) ]_vars

\* C7: whenever createBooking has answered with a failure, no confirmed
\* booking made by that request is in the store.
C7_FailedCreateLeavesNoBooking ==
    \A p \in Procs :
        (Answered(p, "create") /\ reqs[p].resp.code # 201)
        => ~( /\ reqs[p].bookingId # 0
              /\ bookings[reqs[p].bookingId].status = "confirmed" )

\* C8: when the confirmation email or the notification record fails,
\* createBooking still answers 201, and the step changes no booking and no
\* table's availableTimes.
C8_NotifyFailureStill201 ==
    [][ \A p \in Procs :
          ( /\ reqs[p].op = "create" /\ reqs[p].pc = "notify"
            /\ reqs'[p].pc = "done"
            /\ reqs'[p].failed \cap {"email", "notification"} # {} )
          => /\ reqs'[p].resp.code = 201
             /\ bookings' = bookings
             /\ restaurants' = restaurants ]_vars

\* C8 happens: a createBooking whose email or notification record failed has
\* answered 201, its booking is confirmed and its time is off the table
C8_Witness ==
    \E p \in Procs :
        /\ Answered(p, "create")
        /\ reqs[p].failed \cap {"email", "notification"} # {}
        /\ reqs[p].resp.code = 201
        /\ bookings[reqs[p].bookingId].status = "confirmed"
        /\ ~Includes(StoredTimes(reqs[p].bookingId), bookings[reqs[p].bookingId].time)

\* C9: a createBooking in which only the timesBookedToday increment or the
\* read of the joined view failed answers 201.
C9_CounterFailureStill201 ==
    \A p \in Procs :
        ( /\ Answered(p, "create")
          /\ reqs[p].failed # {}
          /\ reqs[p].failed \subseteq {"incCounter", "populate"} )
        => reqs[p].resp.code = 201

\* C10: a cancelBooking that has persisted status 'cancelled' and then failed
\* to load or to save the restaurant answers 200.
C10_RepairFailureStill200 ==
    \A p \in Procs :
        ( /\ Answered(p, "cancel")
          /\ reqs[p].failed \cap {"findRestaurant", "saveRestaurant"} # {} )
        => reqs[p].resp.code = 200

\* the table that booking b names is not in the store: its restaurant is
\* gone, or the restaurant has no date entry on the booking's day, or that
\* entry has no table with the booking's bookedTableDefinitionId
LookupMisses(b) ==
    \/ b.restaurantId \notin DOMAIN restaurants
    \/ LET doc == restaurants[b.restaurantId]
       IN  ~\E d \in 1 .. Len(doc.availableTables) :
               /\ UtcDay(doc.availableTables[d].date) = UtcDay(b.date)
               /\ \E k \in 1 .. Len(doc.availableTables[d].tables) :
                     doc.availableTables[d].tables[k].id = b.bookedTableDefinitionId

\* C11: when cancelBooking, having saved status 'cancelled', does not find the
\* restaurant, the date entry or the table the booking names, that step
\* changes no restaurant and no booking, the booking is 'cancelled', and the
\* step either answers 200 or goes on to the common tail of the handler; and
\* that tail, when nothing in it fails, answers 200 and changes nothing.
C11_LookupMissStillCancels ==
    [][ \A p \in Procs :
          LET bid == reqs[p].bookingId
          IN  /\ ( /\ reqs[p].op = "cancel" /\ reqs[p].pc = "findRestaurant"
                   /\ reqs'[p].pc # "findRestaurant"
                   /\ faults' = faults
                   /\ bookings[bid].bookedTableDefinitionId # 0
                   /\ LookupMisses(bookings[bid]) )
                 => /\ restaurants' = restaurants
                    /\ bookings' = bookings
                    /\ bookings[bid].status = "cancelled"
                    /\ \/ reqs'[p].pc = "notify"
                       \/ reqs'[p].pc = "done" /\ reqs'[p].resp.code = 200
              /\ ( /\ reqs[p].op = "cancel" /\ reqs[p].pc = "notify"
                   /\ reqs'[p].pc = "done"
                   /\ reqs'[p].failed = {} )
                 => /\ reqs'[p].resp.code = 200
                    /\ restaurants' = restaurants
                    /\ bookings' = bookings ]_vars

\* C11 happens: a cancellation has answered 200 for a booking that is now
\* 'cancelled' and whose table was not in the store when the request arrived
C11_Witness ==
    \E p \in Procs :
        /\ Answered(p, "cancel")
        /\ reqs[p].resp.code = 200
        /\ bookings[reqs[p].bookingId].status = "cancelled"
        /\ LookupMisses(bookings[reqs[p].bookingId])

\* C12: a booking's status changes only in a cancelBooking whose requester is
\* the booking's owner or has the admin role; and a cancelBooking for an
\* existing booking by any other requester, whose lookup does not fail, is
\* answered with the not-authorized error and changes no booking and no
\* restaurant.
C12_OnlyOwnerOrAdminCancels ==
    [][ /\ \A i \in 1 .. Len(bookings) :
             bookings'[i].status # bookings[i].status
             => \E p \in Procs :
                   /\ reqs[p].op = "cancel" /\ reqs[p].bookingId = i
                   /\ \/ reqs[p].user.id = bookings[i].userId
                      \/ reqs[p].user.role = "admin"
        /\ \A p \in Procs :
             ( /\ reqs[p].op = "cancel" /\ reqs[p].pc = "begin"
               /\ reqs'[p].pc # "begin"
               /\ faults' = faults
               /\ reqs[p].bookingId <= Len(bookings)
               /\ reqs[p].user.id # bookings[reqs[p].bookingId].userId
               /\ reqs[p].user.role # "admin" )
             => /\ reqs'[p].pc = "done"
                /\ reqs'[p].resp = [code |-> 403, error |-> "NotAuthorized"]
                /\ bookings' = bookings
                /\ restaurants' = restaurants ]_vars

\* the request lacks one of restaurantId, date, time, partySize
LacksField(r) ==
    \/ r.restaurantId = NoId \/ r.date = NoDate \/ r.time = NoTime
    \/ r.partySize.kind = "absent"

\* the party size is a positive integer, as a number or as digits
PositiveInteger(ps) == ps.kind \in {"num", "str"} /\ ps.val > 0

\* request p takes the first step of createBooking and no call fails in it
CreateBeginStep(p) ==
    /\ reqs[p].op = "create" /\ reqs[p].pc = "begin"
    /\ reqs'[p].pc # "begin"
    /\ faults' = faults

\* C13: createBooking answers the missing-fields error when a field is absent;
\* otherwise the invalid-party-size error when partySize is not a positive
\* integer; otherwise the restaurant-not-found error when the restaurant is
\* unknown; and in each of these cases no booking and no restaurant changes.
C13_ValidationOrder ==
    [][ \A p \in Procs :
          LET r == reqs[p]
              rejected == \/ LacksField(r) \/ ~PositiveInteger(r.partySize)
                          \/ r.restaurantId \notin DOMAIN restaurants
              expected ==
                  IF LacksField(r) THEN [code |-> 400, error |-> "MissingFields"]
                  ELSE IF ~PositiveInteger(r.partySize)
                  THEN [code |-> 400, error |-> "InvalidPartySize"]
                  ELSE [code |-> 404, error |-> "RestaurantNotFound"]
          IN  (CreateBeginStep(p) /\ rejected)
              => /\ reqs'[p].pc = "done"
                 /\ reqs'[p].resp = expected
                 /\ bookings' = bookings
                 /\ restaurants' = restaurants ]_vars

\* C14: a createBooking request whose restaurantId, date and time are present
\* and whose partySize is 0 or a negative integer is answered with the
\* invalid-party-size error.
C14_ZeroOrNegativePartyInvalid ==
    [][ \A p \in Procs :
          LET r == reqs[p]
          IN  ( /\ CreateBeginStep(p)
                /\ r.restaurantId # NoId /\ r.date # NoDate /\ r.time # NoTime
                /\ r.partySize.kind \in {"num", "str"}
                /\ r.partySize.val <= 0 )
              => /\ reqs'[p].pc = "done"
                 /\ reqs'[p].resp = [code |-> 400, error |-> "InvalidPartySize"] ]_vars

\* request p has passed the validation of createBooking and names a stored
\* restaurant
PassesValidation(p) ==
    /\ ~LacksField(reqs[p])
    /\ PositiveInteger(reqs[p].partySize)
    /\ reqs[p].restaurantId \in DOMAIN restaurants

\* table k of date entry e is large enough for n and lists exactly time
Eligible(e, k, n, time) ==
    /\ e.tables[k].tableSize >= n
    /\ \E i \in 1 .. Len(e.tables[k].availableTimes) : e.tables[k].availableTimes[i] = time

\* the date entries of doc on the UTC day of date
EntriesOn(doc, date) ==
    { d \in 1 .. Len(doc.availableTables) :
        UtcDay(doc.availableTables[d].date) = UtcDay(date) }

\* C15: createBooking matches a request to a table of the date entry of the
\* requested day that is large enough and lists exactly the requested time,
\* and to the first such table in stored order; when the entry has no such
\* table the request is not matched; and the booking that is then saved names
\* the matched table.
C15_FirstEligibleTable ==
    [][ \A p \in Procs :
          LET r == reqs[p]
              doc == restaurants[r.restaurantId]
              n == r.partySize.val
              d == reqs'[p].dateIdx
              k == reqs'[p].tableIdx
          IN  /\ (CreateBeginStep(p) /\ PassesValidation(p))
                 => IF reqs'[p].pc = "saveBooking"
                    THEN /\ d \in EntriesOn(doc, r.date)
                         /\ k \in 1 .. Len(doc.availableTables[d].tables)
                         /\ Eligible(doc.availableTables[d], k, n, r.time)
                         /\ \A j \in 1 .. k - 1 :
                               ~Eligible(doc.availableTables[d], j, n, r.time)
                    ELSE \A e \in EntriesOn(doc, r.date) :
                           (\A f \in EntriesOn(doc, r.date) : e <= f)
                           => \A j \in 1 .. Len(doc.availableTables[e].tables) :
                                 ~Eligible(doc.availableTables[e], j, n, r.time)
              /\ ( /\ r.op = "create" /\ r.pc = "saveBooking"
                   /\ Len(bookings') = Len(bookings) + 1 )
                 => bookings'[Len(bookings')].bookedTableDefinitionId
                      = r.restaurant.availableTables[r.dateIdx].tables[r.tableIdx].id ]_vars

\* C15 happens: a party of 2 holds a confirmed booking on the table for 4,
\* the first of its date entry, while a later table for 2 lists the time
C15_Witness ==
    /\ Len(bookings) = 1
    /\ bookings[1].status = "confirmed"
    /\ bookings[1].partySize = 2
    /\ bookings[1].tableSize = 4
    /\ bookings[1].restaurantId \in DOMAIN restaurants
    /\ LET doc == restaurants[bookings[1].restaurantId]
       IN  \E d \in EntriesOn(doc, bookings[1].date) :
             \E j, k \in 1 .. Len(doc.availableTables[d].tables) :
                /\ j < k
                /\ doc.availableTables[d].tables[j].id = bookings[1].bookedTableDefinitionId
                /\ Eligible(doc.availableTables[d], k, 2, bookings[1].time)
                /\ doc.availableTables[d].tables[k].tableSize = 2

\* C16: when the date entry of the requested day has a table whose tableSize
\* equals the party size and that lists the requested time, the request is
\* matched; and a request is never matched to a table smaller than the party,
\* in particular not to one of tableSize partySize - 1.
C16_EligibilityBoundary ==
    [][ \A p \in Procs :
          LET r == reqs[p]
              doc == restaurants[r.restaurantId]
              n == r.partySize.val
              d == FindDateUtc(doc, r.date)
              matched == doc.availableTables[reqs'[p].dateIdx].tables[reqs'[p].tableIdx]
          IN  (CreateBeginStep(p) /\ PassesValidation(p))
              => /\ ( /\ d # 0
                      /\ \E k \in 1 .. Len(doc.availableTables[d].tables) :
                            /\ doc.availableTables[d].tables[k].tableSize = n
                            /\ Includes(doc.availableTables[d].tables[k].availableTimes,
                                        r.time) )
                    => reqs'[p].pc = "saveBooking"
                 /\ reqs'[p].pc = "saveBooking"
                    => matched.tableSize # n - 1 /\ matched.tableSize >= n ]_vars

\* C16 happens: one party holds a confirmed booking on a table of exactly its
\* size, and another request has just been matched past a table of tableSize
\* partySize - 1 that lists its time
C16_Witness ==
    /\ \E i \in 1 .. Len(bookings) :
          /\ bookings[i].status = "confirmed"
          /\ bookings[i].partySize = bookings[i].tableSize
    /\ \E p \in Procs :
          /\ reqs[p].op = "create" /\ reqs[p].pc = "saveBooking"
          /\ LET tables == reqs[p].restaurant.availableTables[reqs[p].dateIdx].tables
             IN  /\ tables[reqs[p].tableIdx].tableSize >= reqs[p].partySize.val
                 /\ \E k \in 1 .. Len(tables) :
                       /\ tables[k].tableSize = reqs[p].partySize.val - 1
                       /\ Includes(tables[k].availableTimes, reqs[p].time)

\* C17: a createBooking request that passes validation is answered with the
\* no-availability-for-date error when the restaurant has no date entry on
\* the requested day, and with the no-suitable-table error when the entry of
\* that day has no table that is large enough and lists exactly the time; in
\* both cases the request ends there and no booking and no restaurant changes.
C17_NoDateOrNoTable ==
    [][ \A p \in Procs :
          LET r == reqs[p]
              doc == restaurants[r.restaurantId]
              days == EntriesOn(doc, r.date)
              first == CHOOSE e \in days : \A f \in days : e <= f
              noTable == \A j \in 1 .. Len(doc.availableTables[first].tables) :
                            ~Eligible(doc.availableTables[first], j, r.partySize.val, r.time)
          IN  (CreateBeginStep(p) /\ PassesValidation(p))
              => /\ days = {}
                    => /\ reqs'[p].pc = "done"
                       /\ reqs'[p].resp = [code |-> 400, error |-> "NoTablesForDate"]
                       /\ bookings' = bookings /\ restaurants' = restaurants
                 /\ (days # {} /\ noTable)
                    => /\ reqs'[p].pc = "done"
                       /\ reqs'[p].resp = [code |-> 400, error |-> "NoSuitableTable"]
                       /\ bookings' = bookings /\ restaurants' = restaurants ]_vars

\* C17 happens: against the untouched inventory a request was answered with
\* the no-suitable-table error and there is no booking
C17_Witness ==
    /\ \E p \in Procs :
          /\ Answered(p, "create")
          /\ reqs[p].resp = [code |-> 400, error |-> "NoSuitableTable"]
    /\ bookings = << >>
    /\ restaurants = WideRestaurants

\* new is old with every occurrence of time taken out and the rest in place:
\* each other element has moved up by the occurrences that were ahead of it
TakenOut(old, new, time) ==
    /\ ~Includes(new, time)
    /\ Len(new) = Cardinality({ i \in 1 .. Len(old) : old[i] # time })
    /\ \A i \in 1 .. Len(old) :
          old[i] # time
          => new[i - Cardinality({ j \in 1 .. i : old[j] = time })] = old[i]

\* C18: the restaurant.save() of a successful createBooking takes exactly the
\* requested time out of the matched table's availableTimes and keeps the
\* order of the rest; it leaves every other table of the date entry, every
\* other date entry and every other restaurant as they were, and the dates,
\* the table ids and the table sizes of the matched restaurant stay; no other
\* step of createBooking changes any availableTables.
C18_CreateFrame ==
    [][ \A p \in Procs :
          LET r == reqs[p]
              rid == r.restaurantId
              old == restaurants[rid].availableTables
              new == restaurants'[rid].availableTables
              times == old[r.dateIdx].tables[r.tableIdx].availableTimes
          IN  /\ (r.op = "create" /\ r.pc = "saveRestaurant" /\ reqs'[p].pc = "incCounter")
                 => /\ DOMAIN restaurants' = DOMAIN restaurants
                    /\ \A o \in DOMAIN restaurants \ {rid} : restaurants'[o] = restaurants[o]
                    /\ Len(new) = Len(old)
                    /\ \A d \in 1 .. Len(old) :
                          /\ new[d].date = old[d].date
                          /\ Len(new[d].tables) = Len(old[d].tables)
                          /\ \A t \in 1 .. Len(old[d].tables) :
                                IF d = r.dateIdx /\ t = r.tableIdx
                                THEN /\ new[d].tables[t].id = old[d].tables[t].id
                                     /\ new[d].tables[t].tableSize = old[d].tables[t].tableSize
                                     /\ Includes(times, r.time)
                                     /\ TakenOut(times, new[d].tables[t].availableTimes,
                                                 r.time)
                                ELSE new[d].tables[t] = old[d].tables[t]
              /\ ( /\ r.op = "create" /\ reqs'[p].op = "create"
                   /\ reqs'[p] # r
                   /\ r.pc # "saveRestaurant" )
                 => /\ DOMAIN restaurants' = DOMAIN restaurants
                    /\ \A o \in DOMAIN restaurants :
                          restaurants'[o].availableTables = restaurants[o].availableTables
        ]_vars

\* C18 happens: a createBooking for the first seeded time has answered 201,
\* and the inventory is the seeded one with that time off the first table
C18_Witness ==
    /\ \E p \in Procs : Answered(p, "create") /\ reqs[p].resp.code = 201
    /\ Len(bookings) = 1
    /\ restaurants =
         [WideRestaurants EXCEPT
            ![1].availableTables[1].tables[1].availableTimes = Tail(SeedTimes),
            ![1].timesBookedToday = 1,
            ![1].v = 1]

\* how many times time occurs in times
Occurrences(times, time) == Cardinality({ i \in 1 .. Len(times) : times[i] = time })

\* C19: when cancelBooking, working on an up-to-date copy of the restaurant,
\* saves the restaurant to give the booking's time back to the booked table:
\* if the time was already in the table's availableTimes the save changes no
\* availableTables; otherwise the time is in the list exactly once afterwards
\* and a list that was in chronological order still is.
C19_ReleaseIdempotent ==
    [][ \A p \in Procs :
          LET r == reqs[p]
              b == bookings[r.bookingId]
              rid == b.restaurantId
              times == restaurants[rid].availableTables[r.dateIdx]
                          .tables[r.tableIdx].availableTimes
              after == restaurants'[rid].availableTables[r.dateIdx]
                          .tables[r.tableIdx].availableTimes
          IN  ( /\ r.op = "cancel" /\ r.pc = "saveRestaurant"
                /\ reqs'[p].pc = "notify"
                /\ r.restaurant = restaurants[rid] )
              => IF Includes(times, b.time)
                 THEN restaurants'[rid].availableTables = restaurants[rid].availableTables
                 ELSE /\ Occurrences(after, b.time) = 1
                      /\ Chronological(times) => Chronological(after) ]_vars

\* C20: every table's availableTimes is in chronological order and has no
\* duplicate, in every reachable state (the seeded lists are).
C20_TimesSortedNoDuplicates ==
    \A rid \in DOMAIN restaurants :
      \A d \in 1 .. Len(restaurants[rid].availableTables) :
        \A t \in 1 .. Len(restaurants[rid].availableTables[d].tables) :
          LET times == restaurants[rid].availableTables[d].tables[t].availableTimes
          IN  /\ Chronological(times)
              /\ \A a, b \in 1 .. Len(times) : a # b => times[a] # times[b]

\* C21: when createBooking reaches its restaurant.save() and the requested
\* time is no longer in the stored availableTimes of the matched table, and
\* the store itself does not fail, the request is answered with a
\* slot-not-found error and the save changes no restaurant.
C21_ConsumeMissingSlotFails ==
    [][ \A p \in Procs :
          LET r == reqs[p]
              stored == restaurants[r.restaurantId].availableTables[r.dateIdx]
                           .tables[r.tableIdx].availableTimes
          IN  ( /\ r.op = "create" /\ r.pc = "saveRestaurant"
                /\ reqs'[p].pc # "saveRestaurant"
                /\ faults' = faults
                /\ ~Includes(stored, r.time) )
              => /\ reqs'[p].pc = "done"
                 /\ reqs'[p].resp.error = "SlotNotFound"
                 /\ restaurants' = restaurants ]_vars

\* C22: in every step the booking records that exist stay, in their order;
\* a record that is added has status 'confirmed'; a record that exists changes
\* in nothing but its status, and its status changes only from 'confirmed' to
\* 'cancelled'.
C22_BookingLifecycle ==
    [][ /\ Len(bookings') >= Len(bookings)
        /\ \A i \in 1 .. Len(bookings') :
              IF i > Len(bookings)
              THEN bookings'[i].status = "confirmed"
              ELSE /\ [bookings'[i] EXCEPT !.status = bookings[i].status] = bookings[i]
                   /\ bookings'[i].status # bookings[i].status
                      => /\ bookings[i].status = "confirmed"
                         /\ bookings'[i].status = "cancelled" ]_vars

\* C22 happens: one booking has been cancelled and a later one is confirmed
C22_Witness ==
    /\ Len(bookings) = 2
    /\ bookings[1].status = "cancelled"
    /\ bookings[2].status = "confirmed"

\* request p runs the aggregation of a search and the store does not fail
SearchStep(p) ==
    /\ reqs[p].op = "search" /\ reqs[p].pc = "aggregate"
    /\ reqs'[p].pc = "done"
    /\ faults' = faults

\* t lies within 30 minutes of the asked time, both ends included
WithinHalfHour(t, asked) ==
    /\ Minutes(asked) - 30 <= Minutes(t)
    /\ Minutes(t) <= Minutes(asked) + 30

\* C23: a search with a date and a time of day returns a restaurant if and
\* only if it is approved, matches the location filter, and has on the asked
\* UTC day a table that is large enough for a valid partySize and lists a time
\* within 30 minutes of the asked time, both ends included, whatever the time
\* of day asked.
C23_SearchQualification ==
    [][ \A p \in Procs :
          LET r == reqs[p]
          IN  ( /\ SearchStep(p)
                /\ HasDateAndTime(r)
                /\ r.time # Unparseable )
              => reqs'[p].list =
                   { rid \in DOMAIN restaurants :
                       LET doc == restaurants[rid]
                       IN  /\ doc.isApproved
                           /\ MatchesLocation(doc, r.location)
                           /\ \E d \in 1 .. Len(doc.availableTables) :
                                /\ UtcDay(doc.availableTables[d].date) = r.date
                                /\ \E k \in 1 .. Len(doc.availableTables[d].tables) :
                                     LET table == doc.availableTables[d].tables[k]
                                     IN  /\ PositiveInteger(r.partySize)
                                            => table.tableSize >= r.partySize.val
                                         /\ \E i \in 1 .. Len(table.availableTimes) :
                                              WithinHalfHour(table.availableTimes[i],
                                                             r.time) } ]_vars

\* C24: a search with a date and a time whose partySize is given and is not a
\* positive integer is answered as the same search without partySize is: it is
\* not turned away for the party size, and it lists the same restaurants.
C24_InvalidPartySizeIgnored ==
    [][ \A p \in Procs :
          LET r == reqs[p]
              bare == [r EXCEPT !.partySize = Absent]
          IN  ( /\ SearchStep(p)
                /\ HasDateAndTime(r)
                /\ r.partySize # Absent
                /\ ~PositiveInteger(r.partySize) )
              => /\ reqs'[p].resp.error = SearchRejection(bare)
                 /\ reqs'[p].resp.error # "InvalidPartySize"
                 /\ reqs'[p].resp.error = "none"
                      => reqs'[p].list = SearchResult(bare) ]_vars

\* C24 happens: a search with a date, a time and a partySize that is not a
\* positive integer was answered with a list that holds restaurant 1, whose
\* only table seats 2
C24_Witness ==
    \E p \in Procs :
        /\ Answered(p, "search")
        /\ reqs[p].resp.code = 200
        /\ HasDateAndTime(reqs[p])
        /\ reqs[p].partySize # Absent
        /\ ~PositiveInteger(reqs[p].partySize)
        /\ 1 \in reqs[p].list

\* C25: a search with a date and a time that cannot be parsed as HH:mm is
\* answered 400 with the invalid-time-format error and with no list.
C25_UnparseableTimeRejected ==
    [][ \A p \in Procs :
          ( /\ reqs[p].op = "search" /\ reqs[p].pc = "aggregate"
            /\ reqs'[p].pc # "aggregate"
            /\ reqs[p].date # NoDate
            /\ reqs[p].time = Unparseable )
          => /\ reqs'[p].pc = "done"
             /\ reqs'[p].resp = [code |-> 400, error |-> "InvalidTimeFormat"]
             /\ reqs'[p].list = {} ]_vars

\* C25 happens: a search was answered with the invalid-time-format error and
\* no list while an approved restaurant is listed
C25_Witness ==
    /\ \E p \in Procs :
          /\ Answered(p, "search")
          /\ reqs[p].resp = [code |-> 400, error |-> "InvalidTimeFormat"]
          /\ reqs[p].list = {}
    /\ \E rid \in DOMAIN restaurants : restaurants[rid].isApproved

\* C26: no step of a search request, whatever its query and whatever the
\* booking or cancellation in flight beside it, changes a restaurant (its
\* availableTimes, its timesBookedToday) or a booking.
C26_SearchReadOnly ==
    [][ ( \E p \in Procs :
            /\ reqs'[p] # reqs[p]
            /\ reqs[p].op = "search" \/ reqs'[p].op = "search" )
        => /\ restaurants' = restaurants
           /\ bookings' = bookings ]_vars

\* C26 happens: a search has been answered with a list while a createBooking
\* that has saved its booking is about to save the restaurant
C26_Witness ==
    \E p, q \in Procs :
        /\ Answered(p, "search")
        /\ reqs[p].list # {}
        /\ reqs[q].op = "create"
        /\ reqs[q].pc = "saveRestaurant"
        /\ Len(bookings) > 0

\* C27: a search, with or without date and time, lists only approved
\* restaurants; and a search without date and time lists every approved
\* restaurant that matches the location filter.
C27_OnlyApprovedListed ==
    [][ \A p \in Procs :
          SearchStep(p)
          => /\ \A rid \in reqs'[p].list :
                  rid \in DOMAIN restaurants /\ restaurants[rid].isApproved
             /\ (reqs[p].date = NoDate /\ reqs[p].time = NoTime)
                  => reqs'[p].list =
                       { rid \in DOMAIN restaurants :
                           /\ restaurants[rid].isApproved
                           /\ MatchesLocation(restaurants[rid], reqs[p].location) } ]_vars

\* C27 happens: a search by city without date and time has listed an approved
\* restaurant of that city and not the restaurant of that city that is not
\* approved
C27_Witness ==
    \E p \in Procs :
        /\ Answered(p, "search")
        /\ reqs[p].resp.code = 200
        /\ reqs[p].date = NoDate /\ reqs[p].time = NoTime
        /\ reqs[p].location = <<"s">>
        /\ \E rid \in DOMAIN restaurants :
              /\ ~restaurants[rid].isApproved
              /\ MatchesLocation(restaurants[rid], reqs[p].location)
              /\ rid \notin reqs[p].list
        /\ reqs[p].list # {}

\* request p is an answered cancelBooking that got past its checks and saved
\* the status 'cancelled'
AnsweredCancelOf(p, i) ==
    /\ Answered(p, "cancel")
    /\ reqs[p].bookingId = i
    /\ i <= Len(bookings)
    /\ bookings[i].status = "cancelled"
    /\ reqs[p].resp.error \in {"none", "ErrorCancellingBooking"}
    /\ "findBooking" \notin reqs[p].failed
    /\ "saveBooking" \notin reqs[p].failed

\* C28: when a createBooking and a cancelBooking that ran side by side have
\* both answered, the create having persisted a booking for one slot and the
\* cancel having cancelled the booking of another slot of the same restaurant
\* and date, and no collaborator call failed, the created booking's time is
\* off its table and the cancelled booking's time is back on its table.
C28_NoLostSlots ==
    \A p, q \in Procs :
        LET i == reqs[p].bookingId
            j == reqs[q].bookingId
        IN  ( /\ faults = 0
              /\ Answered(p, "create")
              /\ i # 0
              /\ bookings[i].status = "confirmed"
              /\ AnsweredCancelOf(q, j)
              /\ bookings[i].restaurantId = bookings[j].restaurantId
              /\ bookings[i].date = bookings[j].date
              /\ ~SameSlot(i, j) )
            => /\ ~Includes(StoredTimes(i), bookings[i].time)
               /\ Includes(StoredTimes(j), bookings[j].time)

\* C29: when two cancelBooking requests for the same booking that ran side by
\* side have both got past their checks and answered, no collaborator call
\* failed and no other booking was ever made for that slot, the booking's time
\* is in its table's availableTimes exactly once.
C29_DuplicateCancelReleasesOnce ==
    \A p, q \in Procs :
        \A i \in 1 .. Len(bookings) :
            ( /\ faults = 0
              /\ p # q
              /\ AnsweredCancelOf(p, i)
              /\ AnsweredCancelOf(q, i)
              /\ \A j \in 1 .. Len(bookings) : j # i => ~SameSlot(i, j) )
            => Occurrences(StoredTimes(i), bookings[i].time) = 1

\* C30: the booking that createBooking persists is 'confirmed', carries the
\* id and the tableSize of the table the matcher chose on the request's copy of
\* the restaurant, has partySize <= tableSize, and its time is one that table
\* listed on that copy, on which the matcher ran.
C30_PersistedBookingMatchesTable ==
    [][ \A p \in Procs :
          LET r == reqs[p]
              table == r.restaurant.availableTables[r.dateIdx].tables[r.tableIdx]
              booking == bookings'[Len(bookings')]
          IN  ( /\ r.op = "create" /\ r.pc = "saveBooking"
                /\ reqs'[p].pc = "saveRestaurant"
                /\ Len(bookings') = Len(bookings) + 1 )
              => /\ booking.status = "confirmed"
                 /\ booking.bookedTableDefinitionId = table.id
                 /\ booking.tableSize = table.tableSize
                 /\ booking.partySize <= booking.tableSize
                 /\ booking.time = r.time
                 /\ Includes(table.availableTimes, booking.time) ]_vars

\* C30 happens: a party of 3 holds a confirmed booking on the table for 4 and
\* its time is off that table
C30_Witness ==
    \E i \in 1 .. Len(bookings) :
        /\ bookings[i].status = "confirmed"
        /\ bookings[i].partySize = 3
        /\ bookings[i].tableSize = 4
        /\ bookings[i].bookedTableDefinitionId = 1
        /\ bookings[i].restaurantId \in DOMAIN restaurants
        /\ StoredTimes(i) # << >>
        /\ ~Includes(StoredTimes(i), bookings[i].time)

\* C31: whenever a step of a createBooking request changes a restaurant's
\* availableTables, the booking record of that request is already in the
\* Booking collection: it is the request's own booking, for the request's
\* restaurant and time.
C31_BookingSavedBeforeInventory ==
    [][ \A p \in Procs :
          LET r == reqs[p]
          IN  ( /\ r.op = "create"
                /\ reqs'[p] # r
                /\ \E rid \in DOMAIN restaurants :
                      \/ rid \notin DOMAIN restaurants'
                      \/ restaurants'[rid].availableTables
                           # restaurants[rid].availableTables )
              => /\ r.bookingId \in 1 .. Len(bookings)
                 /\ bookings[r.bookingId].restaurantId = r.restaurantId
                 /\ bookings[r.bookingId].time = r.time
                 /\ bookings[r.bookingId].userId = r.user.id ]_vars

\* C31 happens: the booking of a createBooking request is in the collection,
\* confirmed, while the request has yet to write the restaurant and the time
\* is still on the table
C31_Witness ==
    \E p \in Procs :
        /\ reqs[p].op = "create"
        /\ reqs[p].pc = "saveRestaurant"
        /\ reqs[p].bookingId \in 1 .. Len(bookings)
        /\ bookings[reqs[p].bookingId].status = "confirmed"
        /\ Includes(StoredTimes(reqs[p].bookingId), reqs[p].time)

\* C32: cancelBooking, when its lookup does not fail, answers booking-not-found
\* for an id no booking has; otherwise not-authorized for a requester who is
\* neither the owner nor an admin, also when the booking is already
\* cancelled; otherwise already-cancelled for a cancelled booking; and each
\* of these rejections ends the request and changes no booking and no
\* restaurant.
C32_CancelCheckOrder ==
    [][ \A p \in Procs :
          LET r == reqs[p]
              bid == r.bookingId
              unknown == bid > Len(bookings)
              stranger == /\ ~unknown
                          /\ bookings[bid].userId # r.user.id
                          /\ r.user.role # "admin"
              cancelled == /\ ~unknown /\ ~stranger
                           /\ bookings[bid].status = "cancelled"
          IN  ( /\ r.op = "cancel" /\ r.pc = "begin"
                /\ reqs'[p].pc # "begin"
                /\ faults' = faults
                /\ unknown \/ stranger \/ cancelled )
              => /\ reqs'[p].pc = "done"
                 /\ bookings' = bookings
                 /\ restaurants' = restaurants
                 /\ unknown => reqs'[p].resp \in
                       { [code |-> 404, error |-> "BookingNotFound"],
                         [code |-> 404, error |-> "NotFoundOrAlreadyCancelled"] }
                 /\ stranger => reqs'[p].resp = [code |-> 403, error |-> "NotAuthorized"]
                 /\ cancelled => reqs'[p].resp \in
                       { [code |-> 400, error |-> "AlreadyCancelled"],
                         [code |-> 404, error |-> "NotFoundOrAlreadyCancelled"] } ]_vars

\* the first entry of booking b's restaurant on the booking's UTC day, 0 if none
LegacyEntry(b) ==
    LET doc == restaurants[b.restaurantId]
    IN  FindIndex({ d \in 1 .. Len(doc.availableTables) :
                      UtcDay(doc.availableTables[d].date) = UtcDay(b.date) })

\* the first table of that entry with the booking's tableSize that does not
\* list the booking's time, 0 if none
LegacyTable(b) ==
    IF LegacyEntry(b) = 0 THEN 0
    ELSE LET entry == restaurants[b.restaurantId].availableTables[LegacyEntry(b)]
         IN  FindIndex({ k \in 1 .. Len(entry.tables) :
                           /\ entry.tables[k].tableSize = b.tableSize
                           /\ ~Includes(entry.tables[k].availableTimes, b.time) })

\* C33: a cancelBooking of a confirmed booking without bookedTableDefinitionId,
\* by its owner and with no collaborator failure, saves status 'cancelled';
\* when the booking's day has a table of the booking's tableSize that does not
\* list the time, the handler goes on to save the restaurant and that save
\* puts the time on the first such table, once, and changes no other table;
\* and the request ends with the answer 200.
C33_LegacyCancellation ==
    [][ \A p \in Procs :
          LET r == reqs[p]
              bid == r.bookingId
              b == bookings[bid]
              d == LegacyEntry(b)
              k == LegacyTable(b)
              old == restaurants[b.restaurantId].availableTables[d].tables
              new == restaurants'[b.restaurantId].availableTables[d].tables
          IN  ( /\ r.op = "cancel"
                /\ r.pc \in {"saveBooking", "findRestaurant", "saveRestaurant", "notify"}
                /\ reqs'[p] # r
                /\ b.bookedTableDefinitionId = 0 )
              => /\ bookings'[bid].status = "cancelled"
                 /\ reqs'[p].pc = "done" => reqs'[p].resp.code = 200
                 /\ (r.pc = "findRestaurant" /\ k # 0)
                      => reqs'[p].pc = "saveRestaurant"
                 /\ r.pc = "saveRestaurant"
                      => /\ k # 0
                         /\ Occurrences(new[k].availableTimes, b.time) = 1
                         /\ \A j \in 1 .. Len(old) : j # k => new[j] = old[j]
                 /\ r.pc # "saveRestaurant" => restaurants' = restaurants ]_vars

\* the table of entry d of doc that has the id tid, 0 if none
TableWithId(doc, d, tid) ==
    FindIndex({ k \in 1 .. Len(doc.availableTables[d].tables) :
                  doc.availableTables[d].tables[k].id = tid })

\* C34: the date entry that createBooking resolves for a UTC day, the first
\* entry dated on that day, is the entry cancelBooking and search resolve,
\* whatever the server's zone.  A cancelBooking of a booking whose table is in
\* that entry and does not list the time goes on to restore the time in that
\* entry; and a search for that day lists a restaurant exactly when that entry
\* has a table that passes the search's size and time filters.
C34_SameDateEntry ==
    [][ \A p \in Procs :
          LET r == reqs[p]
          IN  /\ ( /\ r.op = "cancel" /\ r.pc = "findRestaurant"
                   /\ reqs'[p].pc # "findRestaurant"
                   /\ faults' = faults
                   /\ bookings[r.bookingId].bookedTableDefinitionId # 0
                   /\ bookings[r.bookingId].restaurantId \in DOMAIN restaurants )
                 => LET b == bookings[r.bookingId]
                        doc == restaurants[b.restaurantId]
                        d == FindDateUtc(doc, b.date)
                        k == TableWithId(doc, d, b.bookedTableDefinitionId)
                    IN  ( /\ d # 0 /\ k # 0
                          /\ ~Includes(doc.availableTables[d].tables[k].availableTimes,
                                       b.time) )
                        => /\ reqs'[p].pc = "saveRestaurant"
                           /\ reqs'[p].dateIdx = d
              /\ ( /\ SearchStep(p)
                   /\ HasDateAndTime(r)
                   /\ reqs'[p].resp.code = 200 )
                 => \A rid \in DOMAIN restaurants :
                       LET doc == restaurants[rid]
                           d == FindDateUtc(doc, SearchDate(r.date))
                       IN  MatchesInitialQuery(doc, r.location)
                           => ( rid \in reqs'[p].list
                                <=> /\ d # 0
                                    /\ MatchingTables(doc.availableTables[d], r) # {} ) ]_vars

\* C35: a step of a cancelBooking request changes, of the bookings, at most
\* the status of the booking it names, and, of the restaurants, at most the
\* availableTimes of the table that has the booking's bookedTableDefinitionId
\* in a date entry of the booking's UTC day: no restaurant, date entry or
\* table is added or removed, and every date, table id, table size and
\* timesBookedToday stays.
C35_CancelFrame ==
    [][ \A p \in Procs :
          LET r == reqs[p]
              bid == r.bookingId
          IN  ( /\ r.op = "cancel"
                /\ reqs'[p] # r
                /\ bid <= Len(bookings) )
              => /\ Len(bookings') = Len(bookings)
                 /\ \A i \in 1 .. Len(bookings) :
                       IF i = bid
                       THEN [bookings'[i] EXCEPT !.status = bookings[i].status] = bookings[i]
                       ELSE bookings'[i] = bookings[i]
                 /\ DOMAIN restaurants' = DOMAIN restaurants
                 /\ \A rid \in DOMAIN restaurants :
                       LET old == restaurants[rid].availableTables
                           new == restaurants'[rid].availableTables
                       IN  /\ restaurants'[rid].timesBookedToday
                                = restaurants[rid].timesBookedToday
                           /\ Len(new) = Len(old)
                           /\ \A d \in 1 .. Len(old) :
                                 /\ new[d].date = old[d].date
                                 /\ Len(new[d].tables) = Len(old[d].tables)
                                 /\ \A t \in 1 .. Len(old[d].tables) :
                                       \/ new[d].tables[t] = old[d].tables[t]
                                       \/ /\ rid = bookings[bid].restaurantId
                                          /\ UtcDay(old[d].date) = UtcDay(bookings[bid].date)
                                          /\ old[d].tables[t].id
                                               = bookings[bid].bookedTableDefinitionId
                                          /\ new[d].tables[t].id = old[d].tables[t].id
                                          /\ new[d].tables[t].tableSize
                                               = old[d].tables[t].tableSize ]_vars

\* C35 happens: of two bookings of the same time, the one on the second table
\* of the date entry has been cancelled with the answer 200 and its time is
\* back on that table, while the first table still lacks the time
C35_Witness ==
    \E p \in Procs :
        /\ Answered(p, "cancel")
        /\ reqs[p].resp.code = 200
        /\ Len(bookings) = 2
        /\ reqs[p].bookingId = 2
        /\ bookings[2].status = "cancelled"
        /\ bookings[2].bookedTableDefinitionId = 2
        /\ bookings[2].restaurantId \in DOMAIN restaurants
        /\ bookings[1].restaurantId = bookings[2].restaurantId
        /\ Includes(StoredTimes(2), bookings[2].time)
        /\ bookings[1].status = "confirmed"
        /\ bookings[1].bookedTableDefinitionId = 1
        /\ bookings[1].time = bookings[2].time
        /\ StoredTimes(1) # << >>
        /\ ~Includes(StoredTimes(1), bookings[1].time)

\* C36: every createBooking and cancelBooking request that is being served
\* is eventually answered, whichever collaborator calls fail; and once a
\* request is answered its answer stays as it is until the request leaves.
C36_ExactlyOneResponse ==
    /\ \A p \in Procs :
          (reqs[p].op \in {"create", "cancel"} /\ reqs[p].pc # "done")
             ~> (reqs[p].pc = "done" /\ reqs[p].resp.code # 0)
    /\ [][ \A p \in Procs :
             reqs[p].pc = "done"
             => \/ reqs'[p] = reqs[p]
                \/ reqs'[p] = Idle ]_vars

\* C36 happens: a createBooking whose read of the joined view failed and a
\* cancelBooking whose restaurant.save() was refused have both been answered
C36_Witness ==
    \E p, q \in Procs :
        /\ Answered(p, "create")
        /\ "populate" \in reqs[p].failed
        /\ reqs[p].resp.code = 500
        /\ Answered(q, "cancel")
        /\ reqs[q].resp.code # 0

\* the createBooking requests whose handler leaves the increment of
\* restaurant rid's timesBookedToday in this step
LeavingIncrement(rid) ==
    { p \in Procs : /\ reqs[p].op = "create"
                    /\ reqs[p].pc = "incCounter"
                    /\ reqs[p].restaurantId = rid
                    /\ reqs'[p] # reqs[p] }

\* how far restaurant rid's timesBookedToday moves in this step
CounterChange(rid) ==
    IF rid \in DOMAIN restaurants'
    THEN restaurants'[rid].timesBookedToday - restaurants[rid].timesBookedToday
    ELSE 0

Approved(store, rid) == rid \in DOMAIN store /\ store[rid].isApproved

\* C38: a restaurant enters the store with isApproved false and isPending
\* true, and a step in which a restaurant comes to be approved is the
\* admin's approveRestaurant of that restaurant.
C38_ApprovedOnlyByAdmin ==
    [][ \A rid \in DOMAIN restaurants' :
          /\ rid \notin DOMAIN restaurants
             => ~restaurants'[rid].isApproved /\ restaurants'[rid].isPending
          /\ (restaurants'[rid].isApproved /\ ~Approved(restaurants, rid))
             => \E p \in Procs :
                   /\ reqs[p].op = "idle"
                   /\ reqs'[p].op = "approveRestaurant"
                   /\ reqs'[p].user.role = "admin"
                   /\ reqs'[p].restaurantId = rid
                   /\ reqs'[p].resp.code = 200 ]_vars

====
